---------------------------- MODULE Spec2Model ----------------------------
(***************************************************************************)
(* A model of github-metrics-calculator: the paginated fetches of the API  *)
(* client (src/src/lib/github-client.js), the AI co-authorship heuristic,  *)
(* and the per-PR loop and summary statistics of the pr, user and summary  *)
(* commands (src/src/commands/pr-metrics.js, the user command in           *)
(* src/src/lib/github-client.js:561-785, src/src/commands/summary.js).     *)
(*                                                                         *)
(* Three specifications share the variables:                               *)
(*   SpecFetch  one paginated fetch of the client, page by page;           *)
(*   SpecAI     detectAICoAuthorship applied to one commit message;        *)
(*   Spec       one run of a command, or two runs in a row.                *)
(* Each leaves the variables of the other two untouched. SpecRequests is   *)
(* SpecFetch and Spec side by side: a behaviour of either.                 *)
(***************************************************************************)
EXTENDS Integers, Sequences, FiniteSets, TLC

VARIABLES
  \* ---- one paginated fetch (SpecFetch) ----
  fn,          \* the client method that runs
  fopts,       \* its options: username, since, until
  page,        \* `let page = 1`
  hasMore,     \* `let hasMore = true`
  collected,   \* the array the method returns (prs / issues / commits / events)
  reqLog,      \* history: the page numbers requested, in request order
  respLog,     \* history: the pages the remote returned, in order
  fpc,         \* "loop" | "done" | "threw"
  \* ---- one detection (SpecAI) ----
  commitMessage,  \* the argument of detectAICoAuthorship
  detection,      \* its return value, or NoDetection before the call
  aiAssisted,     \* `let aiAssisted = false` of the per-PR commit loop
  aiToolsUsed,    \* `const aiToolsUsed = new Set()`, in insertion order
  commitsSeen,    \* number of commits of the PR the loop has visited
  matched,        \* history: number of visited commits that matched a pattern
  \* ---- one command run (Spec) ----
  cmd,         \* "pr" | "user" | "repo" | "summary"
  options,     \* the options object commander passes
  env,         \* process.env.GITHUB_TOKEN
  pc,          \* position in the handler
  requests,    \* number of requests sent to the remote API
  remote,      \* what the remote API holds: the lists the searches return
  prs,         \* the fetched PR list
  sideLists,   \* the other fetched lists (issues, assigned issues, reviewed PRs)
  idx,         \* index of the next element of prs the for-loop visits
  prDetails,   \* prDetails / prMetricsData
  repoMap,     \* repoMap (user, summary)
  answers,     \* history: what the remote answered for each visited PR
  stdout,      \* the progress markers and messages written
  result,      \* the result object: Null before it is built
  exported,    \* the files written by the export step
  exitCode,    \* the code process.exit was called with (0 when it was not)
  shown,       \* what the render step wrote to stdout: Null before it
  inFlight,    \* the elements of prs with a follow-up request not yet settled
  runsLeft,    \* invocations of the command still to come after this one
  firstRun,    \* history: what the previous invocation was answered and built
  resolvedLists  \* history: the list fetches of the run that have resolved

fetchVars == <<fn, fopts, page, hasMore, collected, reqLog, respLog, fpc>>
aiVars    == <<commitMessage, detection, aiAssisted, aiToolsUsed, commitsSeen,
               matched>>
cmdVars   == <<cmd, options, env, pc, requests, remote, prs, sideLists, idx, prDetails,
               repoMap, answers, stdout, result, exported, exitCode, shown,
               inFlight, runsLeft, firstRun, resolvedLists>>
vars      == <<fetchVars, aiVars, cmdVars>>

----------------------------------------------------------------------------
(* Generic helpers *)

Min(a, b) == IF a < b THEN a ELSE b

Range(s) == {s[i] : i \in 1..Len(s)}

RECURSIVE SumSeq(_)
SumSeq(s) == IF s = <<>> THEN 0 ELSE Head(s) + SumSeq(Tail(s))

RECURSIVE Flatten(_)
Flatten(ss) == IF ss = <<>> THEN <<>> ELSE Head(ss) \o Flatten(Tail(ss))

\* All sequences over S of length at most n.
SeqUpTo(S, n) == UNION {[1..k -> S] : k \in 0..n}

\* Number.prototype.toFixed(d) of the non-negative quotient num/den, held as
\* an integer count of 10^-d units (scale = 10^d); ties round up.
ToFixed(num, den, scale) == (2 * num * scale + den) \div (2 * den)

----------------------------------------------------------------------------
(* Paginated fetch: github-client.js, lines 23-55, 81-110, 127-145,        *)
(* 193-241, 259-295 and 330-361.                                           *)

PerPage == 100        \* per_page: 100
SearchPageCap == 10   \* `page <= 10` of the search-based fetches
EventsPageCap == 3    \* `page <= 3` of fetchUserEvents
PageBound == 11       \* model bound: no request for a page beyond this one

SearchFetchers == {"fetchUserPRsAcrossRepos", "fetchUserIssuesAcrossRepos",
                   "fetchUserCommits"}
ListFetchers   == {"fetchUserPRs", "fetchRepoPRs"}
Fetchers       == SearchFetchers \cup ListFetchers \cup {"fetchUserEvents"}

\* An item of a page: its author and creation day. A page is a sequence of
\* runs [item, n]: n consecutive items with these fields.
Logins == {"u", "v"}
Dates  == 1..3
Run(login, day, n) == [login |-> login, created_at |-> day, n |-> n]

PageLen(pg) == SumSeq([i \in 1..Len(pg) |-> pg[i].n])

\* The pages the remote answers with: empty, short, and full ones (a full
\* page of another author's PRs, and a mixed full page).
ShortPages == { <<>>,
                <<Run("u", 3, 1)>>,
                <<Run("v", 2, 40), Run("u", 1, 3)>> }
FullPages  == { <<Run("v", 2, PerPage)>>,
                <<Run("u", 2, 60), Run("u", 3, 30), Run("v", 1, PerPage - 90)>> }
RemotePages == ShortPages \cup FullPages

\* options.since / options.until: 0 when the option is not given.
FetchOptions == [username : {"u"}, since : {0, 2}, until : {0, 2}]

\* Whether the method's while-condition caps the page number, and the cap.
HasCap(f) == f \in SearchFetchers \cup {"fetchUserEvents"}
PageCap(f) == IF f = "fetchUserEvents" THEN EventsPageCap ELSE SearchPageCap

\* The while-condition without the page cap (a variant C6 is tested against).
LoopContinues_NoCap(f, more, p) == more

\* The while-condition: `hasMore` (fetchUserPRs, fetchRepoPRs),
\* `hasMore && page <= 10` (search), `hasMore && page <= 3` (events).
LoopContinues(f, more, p) == more /\ (HasCap(f) => p <= PageCap(f))

\* The filters with the bounds excluded (a variant C15 is tested against).
Keeps_Strict(f, o, item) ==
  /\ (f = "fetchUserPRs" => item.login = o.username)
  /\ (f \in ListFetchers /\ o.since # 0 => item.created_at > o.since)
  /\ (f \in ListFetchers /\ o.until # 0 => item.created_at < o.until)

\* The client-side filters of fetchUserPRs (author, since, until) and
\* fetchRepoPRs (since, until); the other methods push the page as it is.
Keeps(f, o, item) ==
  /\ (f = "fetchUserPRs" => item.login = o.username)
  /\ (f \in ListFetchers /\ o.since # 0 => item.created_at >= o.since)
  /\ (f \in ListFetchers /\ o.until # 0 => item.created_at <= o.until)

Filtered(f, o, pg) == SelectSeq(pg, LAMBDA r : Keeps(f, o, r))

InitFetch ==
  /\ fn \in Fetchers
  /\ fopts \in FetchOptions
  /\ page = 1
  /\ hasMore = TRUE
  /\ collected = <<>>
  /\ reqLog = <<>>
  /\ respLog = <<>>
  /\ fpc = "loop"

\* One iteration of the while loop: the request for `page` is answered.
RequestPage ==
  /\ fpc = "loop"
  /\ LoopContinues(fn, hasMore, page)
  /\ page <= PageBound
  /\ \E pg \in RemotePages :
       /\ reqLog' = Append(reqLog, page)
       /\ respLog' = Append(respLog, pg)
       /\ collected' = collected \o Filtered(fn, fopts, pg)
       /\ hasMore' = (PageLen(pg) = PerPage)
       /\ page' = page + 1
  /\ UNCHANGED <<fn, fopts, fpc>>
  /\ UNCHANGED <<aiVars, cmdVars>>

\* The awaited request rejects: the method throws out of the loop.
RequestRejected ==
  /\ fpc = "loop"
  /\ LoopContinues(fn, hasMore, page)
  /\ page <= PageBound
  /\ reqLog' = Append(reqLog, page)
  /\ fpc' = "threw"
  /\ UNCHANGED <<fn, fopts, page, hasMore, collected, respLog>>
  /\ UNCHANGED <<aiVars, cmdVars>>

\* The while-condition is false: `return prs`.
ReturnCollected ==
  /\ fpc = "loop"
  /\ ~LoopContinues(fn, hasMore, page)
  /\ fpc' = "done"
  /\ UNCHANGED <<fn, fopts, page, hasMore, collected, reqLog, respLog>>
  /\ UNCHANGED <<aiVars, cmdVars>>

FetchIdle ==
  /\ fn = "none" /\ fopts = [username |-> "u", since |-> 0, until |-> 0]
  /\ page = 1 /\ hasMore = TRUE /\ collected = <<>>
  /\ reqLog = <<>> /\ respLog = <<>> /\ fpc = "done"

----------------------------------------------------------------------------
(* AI co-authorship detection: github-client.js, lines 301-325, and the    *)
(* per-PR commit loop, lines 613-622 (summary.js 254-263, 981-990).        *)

MaxMsgLen  == 3   \* model bound: tokens in a commit message
MaxCommits == 2   \* model bound: commits of one PR in SpecAI

\* A commit message is a sequence of space-separated tokens as written. Each
\* word of the vocabulary has a lower-case and an upper-case spelling; "\n"
\* is a line break, which the regular expressions' `.` does not cross.
Words == { [lo |-> "co-authored-by:", up |-> "Co-Authored-By:"],
           [lo |-> "claude",          up |-> "Claude"],
           [lo |-> "anthropic",       up |-> "Anthropic"],
           [lo |-> "copilot",         up |-> "Copilot"],
           [lo |-> "openai",          up |-> "OpenAI"],
           [lo |-> "chatgpt",         up |-> "ChatGPT"],
           [lo |-> "cursor",          up |-> "Cursor"],
           [lo |-> "[ai]",            up |-> "[AI]"],
           [lo |-> "[ai-generated]",  up |-> "[AI-Generated]"],
           [lo |-> "[copilot]",       up |-> "[Copilot]"],
           [lo |-> "[claude]",        up |-> "[Claude]"],
           [lo |-> "fix",             up |-> "Fix"] }

\* Case folding, as the regular expressions' i flag applies it.
ToLower(t) == IF \E w \in Words : w.up = t
              THEN (CHOOSE w \in Words : w.up = t).lo
              ELSE t

\* The same token in the other letter case.
SwapCase(t) == IF \E w \in Words : w.up = t
               THEN (CHOOSE w \in Words : w.up = t).lo
               ELSE IF \E w \in Words : w.lo = t
                    THEN (CHOOSE w \in Words : w.lo = t).up
                    ELSE t

SwapCaseMsg(m) == [i \in 1..Len(m) |-> SwapCase(m[i])]

\* The tokens the commit messages of the model are written with.
Tokens == {"Co-Authored-By:", "co-authored-by:", "Claude", "anthropic",
           "Copilot", "[AI]", "[claude]", "\n", "fix"}
Messages == SeqUpTo(Tokens, MaxMsgLen)

\* Substring test on lower-case tokens: the bracketed tags hold the tool
\* names "claude" and "copilot".
HasSubstring(t, kw) ==
  \/ t = kw
  \/ t = "[claude]" /\ kw = "claude"
  \/ t = "[copilot]" /\ kw = "copilot"

\* const aiPatterns = [...] (lines 302-310). A trailer pattern is
\* /co-authored-by:.*<kw>/i; the tag pattern is an alternation of tags.
aiPatterns ==
  << [kind |-> "trailer", kw |-> "claude",    tool |-> "Claude"],
     [kind |-> "trailer", kw |-> "anthropic", tool |-> "Claude"],
     [kind |-> "trailer", kw |-> "copilot",   tool |-> "GitHub Copilot"],
     [kind |-> "trailer", kw |-> "openai",    tool |-> "OpenAI"],
     [kind |-> "trailer", kw |-> "chatgpt",   tool |-> "ChatGPT"],
     [kind |-> "trailer", kw |-> "cursor",    tool |-> "Cursor"],
     [kind |-> "tag",     kw |-> "",          tool |-> "AI (tagged)"] >>

AITags == {"[ai]", "[ai-generated]", "[copilot]", "[claude]"}

\* The text matched as written, without the i flag (a variant C8 is tested
\* against).
Folded_CaseSensitive(m) == m

\* The text a pattern is matched against, with the i flag applied.
Folded(m) == [i \in 1..Len(m) |-> ToLower(m[i])]

\* pattern.test(commitMessage)
PatternTest(p, m) ==
  LET f == Folded(m) IN
  IF p.kind = "trailer"
  THEN \E i \in 1..Len(f) : \E j \in (i + 1)..Len(f) :
         /\ f[i] = "co-authored-by:"
         /\ HasSubstring(f[j], p.kw)
         /\ \A k \in (i + 1)..(j - 1) : f[k] # "\n"
  ELSE \E i \in 1..Len(f) : f[i] \in AITags

\* Some pattern of aiPatterns tests true on the message.
MatchesSomePattern(m) == \E k \in 1..Len(aiPatterns) : PatternTest(aiPatterns[k], m)

\* The for-loop of lines 313-319 from pattern k on, with detectedTools = acc.
RECURSIVE DetectFrom(_, _, _)
DetectFrom(k, acc, m) ==
  IF k > Len(aiPatterns) THEN acc
  ELSE LET p == aiPatterns[k] IN
       IF PatternTest(p, m) /\ p.tool \notin Range(acc)
       THEN DetectFrom(k + 1, Append(acc, p.tool), m)
       ELSE DetectFrom(k + 1, acc, m)

detectAICoAuthorship(m) ==
  LET detectedTools == DetectFrom(1, <<>>, m) IN
  [isAIAssisted |-> Len(detectedTools) > 0, aiTools |-> detectedTools]

\* detection.aiTools.forEach(tool => aiToolsUsed.add(tool))
RECURSIVE SetAddAll(_, _)
SetAddAll(set, tools) ==
  IF tools = <<>> THEN set
  ELSE SetAddAll(IF Head(tools) \in Range(set) THEN set
                 ELSE Append(set, Head(tools)), Tail(tools))

\* The iteration with `aiAssisted = true` outside the if (a variant C9 is
\* tested against).
CommitStep_FlagAlways(acc, m) ==
  LET d == detectAICoAuthorship(m) IN
  [aiAssisted |-> TRUE,
   aiToolsUsed |-> IF d.isAIAssisted THEN SetAddAll(acc.aiToolsUsed, d.aiTools)
                   ELSE acc.aiToolsUsed]

\* One iteration of `for (const commit of commits)` (lines 616-622) on the
\* loop state acc = [aiAssisted, aiToolsUsed].
CommitStep(acc, m) ==
  LET d == detectAICoAuthorship(m) IN
  IF d.isAIAssisted
  THEN [aiAssisted |-> TRUE, aiToolsUsed |-> SetAddAll(acc.aiToolsUsed, d.aiTools)]
  ELSE acc

NoDetection == [isAIAssisted |-> FALSE, aiTools |-> <<"none">>]

InitAI ==
  /\ commitMessage = <<>>
  /\ detection = NoDetection
  /\ aiAssisted = FALSE
  /\ aiToolsUsed = <<>>
  /\ commitsSeen = 0
  /\ matched = 0

AIIdle == InitAI

\* The loop visits the next commit of the PR.
DetectCommit ==
  /\ commitsSeen < MaxCommits
  /\ detection = NoDetection
  /\ \E m \in Messages :
       LET acc == CommitStep([aiAssisted |-> aiAssisted,
                              aiToolsUsed |-> aiToolsUsed], m) IN
       /\ commitMessage' = m
       /\ detection' = detectAICoAuthorship(m)
       /\ aiAssisted' = acc.aiAssisted
       /\ aiToolsUsed' = acc.aiToolsUsed
       /\ matched' = IF MatchesSomePattern(m) THEN matched + 1 ELSE matched
  /\ commitsSeen' = commitsSeen + 1
  /\ UNCHANGED <<fetchVars, cmdVars>>

\* The iteration ends: `commit` and `detection` go out of scope.
EndIteration ==
  /\ detection # NoDetection
  /\ commitMessage' = <<>>
  /\ detection' = NoDetection
  /\ UNCHANGED <<aiAssisted, aiToolsUsed, commitsSeen, matched>>
  /\ UNCHANGED <<fetchVars, cmdVars>>

----------------------------------------------------------------------------
(* The data of a command run.                                              *)

MaxPRs  == 3   \* model bound: length of the fetched PR list
MaxSide == 1   \* model bound: length of each of the other fetched lists

\* null / undefined, and a present value v.
Null == <<>>
Some(v) == <<v>>
IsNull(x) == x = Null
Val(x) == x[1]

\* Timestamps are held in seconds since an arbitrary origin: the remote
\* reports whole seconds, so the code's millisecond difference divided by
\* 1000 * 60 * 60 * 24 is the difference in seconds divided by 60 * 60 * 24.
\* A merge or close never precedes the creation.
DayLength   == 60 * 60 * 24
FiveMinutes == 5 * 60
DayAndHalf  == DayLength + DayLength \div 2

\* repository_url, as split('/') sees it.
RepoUrl(owner, repo) == <<"https:", "", "api.github.com", "repos", owner, repo>>

\* An item of the search API (user, summary): created at time t, merged
\* after delay m (or not merged); merged_at is the item's
\* pull_request.merged_at. The remote reports a merged pull request
\* with state "closed".
PRItem(n, r, st, t, m, c) ==
  [number |-> n, repository_url |-> RepoUrl("o", r), state |-> st,
   created_at |-> t, merged_at |-> IF IsNull(m) THEN Null ELSE Some(t + Val(m)),
   comments |-> c]

PRItems ==
  { PRItem(1, "a", "open",   4000, Null, Null),
    PRItem(2, "a", "closed", 2000, Some(FiveMinutes), Some(1)),
    PRItem(3, "b", "closed", 3000, Some(DayAndHalf), Some(2)),
    PRItem(4, "b", "closed", 1000, Null, Some(0)) }

\* An item of pulls.list (pr, repo): its number, author and creation time.
PullItem(n, login, st, t, m) ==
  [number |-> n, user |-> [login |-> login], state |-> st, created_at |-> t,
   merged_at |-> IF IsNull(m) THEN Null ELSE Some(t + Val(m))]

PullItems == { PullItem(11, "u", "open",   4000, Null),
               PullItem(12, "v", "closed", 3000, Some(DayLength)),
               PullItem(13, "u", "closed", 2000, Some(DayAndHalf)),
               PullItem(14, "u", "closed", 1000, Null),
               PullItem(15, "u", "closed", 500,  Some(DayLength)) }

IssueItems == { [number |-> 7, state |-> "open"] }

\* The three follow-up requests of one PR in the user and summary commands
\* (listReviews, listComments, fetchPRCommits), when all three resolve.
ReviewStates == {"CHANGES_REQUESTED", "APPROVED", "COMMENTED"}

FollowUp(rv, nc, cs) == [reviews |-> rv, comments |-> nc, commits |-> cs]

FollowUps ==
  { FollowUp(<<>>, 0, << <<"fix">>, <<"co-authored-by:", "\n", "Claude">> >>),
    FollowUp(<<"CHANGES_REQUESTED", "APPROVED">>, 2,
             << <<"fix", "\n", "Co-Authored-By:", "Claude">>,
                <<"co-authored-by:", "anthropic", "claude">> >>),
    FollowUp(<<"CHANGES_REQUESTED", "COMMENTED", "CHANGES_REQUESTED">>, 1,
             << <<"[AI]", "fix">>, <<"co-authored-by:", "Copilot">> >>),
    FollowUp(<<"CHANGES_REQUESTED", "CHANGES_REQUESTED", "CHANGES_REQUESTED">>, 0,
             << <<"fix">> >>) }

FollowUpRequests == {"listReviews", "listComments", "fetchPRCommits"}

\* The five requests of fetchPRDetails (pr), when all five resolve: the
\* pull request of pulls.get, the comment authors, the reviews, the commits.
Review(login, st) == [user |-> [login |-> login], state |-> st]

Pull(st, t, m, cl) ==
  [state |-> st, created_at |-> t,
   merged_at |-> IF IsNull(m) THEN Null ELSE Some(t + Val(m)),
   closed_at |-> IF IsNull(cl) THEN Null ELSE Some(t + Val(cl))]

Details(pull, ic, rc, rv, cs) ==
  [pr |-> pull, issueComments |-> ic, reviewComments |-> rc, reviews |-> rv,
   commits |-> cs]

PRDetailsAnswers ==
  { Details(Pull("open", 1000, Null, Null), <<>>, <<>>, <<>>, << <<"fix">> >>),
    Details(Pull("closed", 2000, Some(0), Some(0)), <<"v">>, <<"w", "v">>,
            <<Review("w", "APPROVED")>>, << <<"fix">>, <<"fix">> >>),
    Details(Pull("closed", 3000, Some(DayAndHalf), Some(DayAndHalf)), <<"w">>, <<>>,
            <<Review("w", "CHANGES_REQUESTED"), Review("w", "APPROVED"),
              Review("x", "COMMENTED")>>, <<>>),
    Details(Pull("closed", 4000, Null, Some(DayLength)), <<>>, <<"u">>,
            <<Review("w", "CHANGES_REQUESTED")>>, << <<"fix">> >>),
    Details(Pull("closed", 500, Some(DayLength + 864), Some(DayLength + 864)),
            <<"u", "v", "u">>, <<>>, <<>>, << <<"fix">> >>) }

PRDetailsRequests == {"pulls.get", "listComments", "listReviewComments",
                      "listReviews", "listCommits"}

----------------------------------------------------------------------------
(* Per-PR record of the user and summary commands: github-client.js        *)
(* 595-646, summary.js 238-286 and 965-1013.                               *)

\* `${owner}/${repo}` from the last two parts of repository_url
RepoFullName(url) == <<url[Len(url) - 1], "/", url[Len(url)]>>

\* x || 0
OrZero(x) == IF IsNull(x) THEN 0 ELSE Val(x)

\* JavaScript truthiness of a nullable number
Truthy(x) == ~IsNull(x) /\ Val(x) # 0

CountIf(s, Test(_)) == Len(SelectSeq(s, Test))

\* The commit loop of lines 614-622 over all commits of the PR.
RECURSIVE DetectPR(_, _)
DetectPR(acc, commits) ==
  IF commits = <<>> THEN acc
  ELSE DetectPR(CommitStep(acc, Head(commits)), Tail(commits))

\* Lines 625-630: days with two decimals, held in hundredths of a day.
TimeToMerge(pr) ==
  IF IsNull(pr.merged_at) THEN Null
  ELSE Some(ToFixed(Val(pr.merged_at) - pr.created_at, DayLength, 100))

\* const prData = {...} (lines 632-646); commitCount in the user command only.
PRData(c, pr, fu) ==
  LET ai == DetectPR([aiAssisted |-> FALSE, aiToolsUsed |-> <<>>], fu.commits)
      base == [ number |-> pr.number,
                repo |-> RepoFullName(pr.repository_url),
                state |-> pr.state,
                merged |-> ~IsNull(pr.merged_at),
                comments |-> fu.comments + OrZero(pr.comments),
                changesRequested |->
                  CountIf(fu.reviews, LAMBDA r : r = "CHANGES_REQUESTED"),
                timeToMerge |-> TimeToMerge(pr),
                aiAssisted |-> ai.aiAssisted,
                aiTools |-> ai.aiToolsUsed ]
  IN IF c = "user" THEN base @@ [commitCount |-> Len(fu.commits)] ELSE base

\* repoMap is a Map: its entries in insertion order.
HasRepo(map, name) == \E i \in 1..Len(map) : map[i].repo = name
RepoAt(map, name) == CHOOSE i \in 1..Len(map) : map[i].repo = name

\* An entry created with its first PR already counted (a variant C25 is
\* tested against).
NewRepoStats_Counted(name) ==
  [repo |-> name, totalPRs |-> 1, mergedPRs |-> 0, totalComments |-> 0,
   changesRequested |-> 0, mergeTimesSum |-> 0, mergeTimesCount |-> 0]

\* repoMap.set(repoFullName, {...}) (lines 652-660)
NewRepoStats(name) ==
  [repo |-> name, totalPRs |-> 0, mergedPRs |-> 0, totalComments |-> 0,
   changesRequested |-> 0, mergeTimesSum |-> 0, mergeTimesCount |-> 0]

\* Lines 650-671: the repository's entry is created if absent and updated.
AggregateRepo(map, d) ==
  LET m1 == IF HasRepo(map, d.repo) THEN map ELSE Append(map, NewRepoStats(d.repo))
      i  == RepoAt(m1, d.repo)
      t  == Truthy(d.timeToMerge)
  IN [m1 EXCEPT ![i] =
        [@ EXCEPT !.totalPRs = @ + 1,
                  !.mergedPRs = IF d.merged THEN @ + 1 ELSE @,
                  !.totalComments = @ + d.comments,
                  !.changesRequested = @ + d.changesRequested,
                  !.mergeTimesSum = IF t THEN @ + Val(d.timeToMerge) ELSE @,
                  !.mergeTimesCount = IF t THEN @ + 1 ELSE @]]

----------------------------------------------------------------------------
(* calculatePRMetrics: pr-metrics.js 19-75.                                *)

Logins0(s) == {s[i] : i \in 1..Len(s)}

\* Lines 34 and 71: `mergedAt ? diff / day : null`, then
\* `timeToMerge ? Number(timeToMerge.toFixed(2)) : null`; a quotient of 0 is
\* falsy. Lines 35 and 72 do the same with closed_at.
DaysOrNull(from, to) ==
  IF IsNull(to) THEN Null
  ELSE IF Val(to) - from = 0 THEN Null
       ELSE Some(ToFixed(Val(to) - from, DayLength, 100))

\* Every review counted, whatever its state (a variant C21 is tested
\* against).
ReviewsInState_Any(reviews, st) == Len(reviews)

\* reviews.filter(r => r.state === st).length (lines 27-28)
ReviewsInState(reviews, st) == CountIf(reviews, LAMBDA r : r.state = st)

calculatePRMetrics(number, prData) ==
  LET pr == prData.pr
      totalIssueComments  == Len(prData.issueComments)
      totalReviewComments == Len(prData.reviewComments)
      totalComments       == totalIssueComments + totalReviewComments
      uniqueReviewers == {prData.reviews[i].user.login : i \in 1..Len(prData.reviews)}
      commenters == Logins0(prData.issueComments) \cup Logins0(prData.reviewComments)
      allParticipants == commenters \cup uniqueReviewers
  IN [ number |-> number,
       state |-> pr.state,
       merged |-> ~IsNull(pr.merged_at),
       metrics |->
         [ totalComments |-> totalComments,
           issueComments |-> totalIssueComments,
           reviewComments |-> totalReviewComments,
           reviews |-> Len(prData.reviews),
           changesRequested |-> ReviewsInState(prData.reviews, "CHANGES_REQUESTED"),
           approved |-> ReviewsInState(prData.reviews, "APPROVED"),
           uniqueReviewers |-> Cardinality(uniqueReviewers),
           uniqueParticipants |-> Cardinality(allParticipants),
           commits |-> Len(prData.commits),
           conversationDensity |->
             IF Len(prData.commits) > 0
             THEN ToFixed(totalComments, Len(prData.commits), 100) ELSE 0,
           timeToMergeInDays |-> DaysOrNull(pr.created_at, pr.merged_at),
           timeToCloseInDays |-> DaysOrNull(pr.created_at, pr.closed_at) ] ]

----------------------------------------------------------------------------
(* calculateSummary: pr-metrics.js 80-114. A list holds numbers in units   *)
(* of 1/unit (counts: unit 1; days with two decimals: unit 100); averages  *)
(* and medians are held in hundredths.                                     *)

\* sort((a, b) => a - b): ascending. Place i holds the value with fewer
\* than i smaller elements and at least i elements not greater.
SortAsc(arr) ==
  [i \in 1..Len(arr) |->
     CHOOSE v \in Range(arr) :
       /\ Cardinality({j \in 1..Len(arr) : arr[j] < v}) < i
       /\ i <= Cardinality({j \in 1..Len(arr) : arr[j] <= v})]

\* const avg = (arr) => arr.length ? Number((sum / arr.length).toFixed(2)) : 0
avg(arr, unit) ==
  IF Len(arr) > 0 THEN ToFixed(SumSeq(arr), Len(arr), 100 \div unit) ELSE 0

\* A median that sorts the array it is given (a variant C22 is tested
\* against).
median_InPlace(arr, unit) ==
  LET sorted == SortAsc(arr)
      mid == Len(sorted) \div 2
  IN [ value |-> IF Len(arr) = 0 THEN 0
                 ELSE IF Len(sorted) % 2 = 1 THEN sorted[mid + 1] * (100 \div unit)
                 ELSE ToFixed(sorted[mid] + sorted[mid + 1], 2, 100 \div unit),
       arr |-> sorted ]

\* const median = (arr) => {...}: the value returned, and arr as the call
\* leaves it (the sort is applied to the copy [...arr]). `mid` counts from
\* 0 in the code and from 1 here. A mean halfway between two hundredths is
\* written by toFixed(2) as the one or the other, as its binary value
\* falls; ToFixed takes the upper.
median(arr, unit) ==
  LET sorted == SortAsc(arr)
      mid == Len(sorted) \div 2
  IN [ value |-> IF Len(arr) = 0 THEN 0
                 ELSE IF Len(sorted) % 2 = 1 THEN sorted[mid + 1] * (100 \div unit)
                 ELSE ToFixed(sorted[mid] + sorted[mid + 1], 2, 100 \div unit),
       arr |-> arr ]

\* The arrays the later lines read are the arrays the calls to median left.
calculateSummary(allPRs, mergedPRs) ==
  LET Of(f) == [i \in 1..Len(allPRs) |-> allPRs[i].metrics[f]]
      MathMax(arr) == CHOOSE x \in Range(arr) : \A y \in Range(arr) : y <= x
      MathMin(arr) == CHOOSE x \in Range(arr) : \A y \in Range(arr) : x <= y
      medianComments == median(Of("totalComments"), 1)
      comments == medianComments.arr
      mergedTimes == SelectSeq([i \in 1..Len(mergedPRs) |->
                                  mergedPRs[i].metrics.timeToMergeInDays],
                               LAMBDA t : ~IsNull(t))
      mergedTimeToMerge == [i \in 1..Len(mergedTimes) |-> Val(mergedTimes[i])]
  IN [ averageComments |-> avg(Of("totalComments"), 1),
       medianComments |-> medianComments.value,
       averageReviewComments |-> avg(Of("reviewComments"), 1),
       averageChangesRequested |-> avg(Of("changesRequested"), 1),
       averageReviewers |-> avg(Of("uniqueReviewers"), 1),
       averageParticipants |-> avg(Of("uniqueParticipants"), 1),
       averageCommitsPerPR |-> avg(Of("commits"), 1),
       averageTimeToMerge |-> avg(mergedTimeToMerge, 100),
       medianTimeToMerge |-> median(mergedTimeToMerge, 100).value,
       maxComments |-> IF Len(comments) > 0 THEN MathMax(comments) ELSE 0,
       minComments |-> IF Len(comments) > 0 THEN MathMin(comments) ELSE 0,
       totalComments |-> SumSeq(comments) ]

----------------------------------------------------------------------------
(* Summary statistics of the user and summary commands: github-client.js   *)
(* 681-765, summary.js 340-401 and 1105-1183.                              *)

\* arr.reduce((sum, x) => sum + F(x), 0)
SumBy(s, F(_)) == SumSeq([i \in 1..Len(s) |-> F(s[i])])

\* obj[k] = 1, whatever obj[k] was (a variant C10 is tested against).
Bump_Reset(obj, k) == [j \in DOMAIN obj \cup {k} |-> IF j = k THEN 1 ELSE obj[j]]

\* obj[k] = (obj[k] || 0) + 1
Bump(obj, k) == IF k \in DOMAIN obj THEN [obj EXCEPT ![k] = @ + 1]
                ELSE obj @@ (k :> 1)

RECURSIVE BumpAll(_, _)
BumpAll(obj, ks) == IF ks = <<>> THEN obj ELSE BumpAll(Bump(obj, Head(ks)), Tail(ks))

EmptyObject == <<>>

\* Lines 1127-1132 (summary): the histogram of changesRequested.
ChangesRequestedDistribution(details) ==
  BumpAll(EmptyObject, [i \in 1..Len(details) |-> details[i].changesRequested])

\* Lines 695-701: tool -> number of AI-assisted PRs naming it.
AIToolsCount(details) ==
  BumpAll(EmptyObject,
          Flatten([i \in 1..Len(details) |->
                     IF details[i].aiAssisted THEN details[i].aiTools ELSE <<>>]))

\* Array.prototype.sort((a, b) => b.totalPRs - a.totalPRs): stable, descending.
RECURSIVE InsertDesc(_, _)
InsertDesc(sorted, x) ==
  IF sorted = <<>> THEN <<x>>
  ELSE IF Head(sorted).totalPRs >= x.totalPRs
       THEN <<Head(sorted)>> \o InsertDesc(Tail(sorted), x)
       ELSE <<x>> \o sorted

\* The entries left in insertion order (a variant C11 is tested against).
SortByTotalPRsDesc_Unsorted(s) == s

RECURSIVE SortByTotalPRsDesc(_)
SortByTotalPRsDesc(s) ==
  IF s = <<>> THEN <<>>
  ELSE InsertDesc(SortByTotalPRsDesc(SubSeq(s, 1, Len(s) - 1)), s[Len(s)])

\* Lines 723-732: average merge time per repository, sort, slice(0, top).
RepoBreakdown(map, top) ==
  LET withAvg == [i \in 1..Len(map) |->
                    map[i] @@ [avgTimeToMerge |->
                      IF map[i].mergeTimesCount > 0
                      THEN Some(ToFixed(map[i].mergeTimesSum, map[i].mergeTimesCount, 1))
                      ELSE Null]]
      sorted == SortByTotalPRsDesc(withAvg)
  IN SubSeq(sorted, 1, Min(top, Len(sorted)))

\* closedPRs without the `!pr.merged` test (a variant C1 is tested against).
ClosedOf_WithMerged(details) == SelectSeq(details, LAMBDA d : d.state = "closed")

\* const mergedPRs / openPRs / closedPRs (lines 682-684)
MergedOf(details) == SelectSeq(details, LAMBDA d : d.merged)
OpenOf(details)   == SelectSeq(details, LAMBDA d : d.state = "open")
ClosedOf(details) == SelectSeq(details, LAMBDA d : d.state = "closed" /\ ~d.merged)

\* const mergeTimes / avgTimeToMerge (lines 688-692), in hundredths of a day
AvgTimeToMerge(details) ==
  LET mergeTimes == SelectSeq([i \in 1..Len(MergedOf(details)) |->
                                 MergedOf(details)[i].timeToMerge],
                              LAMBDA t : ~IsNull(t))
  IN IF Len(mergeTimes) > 0
     THEN ToFixed(SumBy(mergeTimes, LAMBDA t : Val(t)), Len(mergeTimes), 1)
     ELSE 0

\* A per-PR average with toFixed(2) truncated instead of rounded (a variant
\* C7 is tested against).
AvgPerPR_Floor(total, n) == IF n > 0 THEN (total * 100) \div n ELSE 0

\* `n > 0 ? Number((total / n).toFixed(2)) : 0` (lines 749 and 751)
AvgPerPR(total, n) == IF n > 0 THEN ToFixed(total, n, 100) ELSE 0

\* result.summary (lines 741-761; summary.js 1152-1177). Averages are held in
\* hundredths, the percentage in tenths of a percent.
SummaryOf(c, details, map, side) ==
  LET n == Len(details)
      totalComments == SumBy(details, LAMBDA d : d.comments)
      totalChangesRequested == SumBy(details, LAMBDA d : d.changesRequested)
      aiAssistedPRs == SelectSeq(details, LAMBDA d : d.aiAssisted)
      common ==
        [ totalPRs |-> n,
          mergedPRs |-> Len(MergedOf(details)),
          openPRs |-> Len(OpenOf(details)),
          closedPRs |-> Len(ClosedOf(details)),
          reposContributed |-> Len(map),
          totalComments |-> totalComments,
          avgCommentsPerPR |-> AvgPerPR(totalComments, n),
          totalChangesRequested |-> totalChangesRequested,
          avgChangesRequestedPerPR |-> AvgPerPR(totalChangesRequested, n),
          avgTimeToMerge |-> AvgTimeToMerge(details),
          aiAssistedPRs |-> Len(aiAssistedPRs),
          aiAssistedPercentage |->
            IF n > 0 THEN ToFixed(Len(aiAssistedPRs) * 100, n, 10) ELSE 0,
          aiToolsBreakdown |-> AIToolsCount(details) ]
      IsOpen(i) == i.state = "open"
      IsClosed(i) == i.state = "closed"
  IN IF c = "user"
     THEN common @@
          [ totalIssues |-> Len(side.issues),
            openIssues |-> CountIf(side.issues, IsOpen),
            closedIssues |-> CountIf(side.issues, IsClosed) ]
     ELSE common @@
          [ changesRequestedDistribution |-> ChangesRequestedDistribution(details),
            totalIssuesCreated |-> Len(side.issues),
            openIssuesCreated |-> CountIf(side.issues, IsOpen),
            closedIssuesCreated |-> CountIf(side.issues, IsClosed),
            totalIssuesAssigned |-> Len(side.assigned),
            openIssuesAssigned |-> CountIf(side.assigned, IsOpen),
            closedIssuesAssigned |-> CountIf(side.assigned, IsClosed),
            totalPRsReviewed |-> Len(side.reviewed) ]

----------------------------------------------------------------------------
(* What the summary command shows and writes: formatSummaryTable           *)
(* (summary.js 596-916), exportToCSV (442-591), and JSON.stringify of      *)
(* formatJSON and exportToFile (part_001 180-182, 230-233). A number is    *)
(* written as text: its integer part and its decimal digits.               *)

\* String(n) of a non-negative number n held in units of 1/scale: trailing
\* zeros of the decimals are not written (1.50 is "1.5", 2.00 is "2").
RECURSIVE FracDigits(_, _)
FracDigits(r, scale) ==
  IF r = 0 THEN <<>>
  ELSE <<(r * 10) \div scale>> \o FracDigits((r * 10) % scale, scale)

\* A number written without its decimals (a variant C14 is tested against).
NumberText_Integer(v, scale) == [int |-> v \div scale, frac |-> <<>>]

NumberText(v, scale) == [int |-> v \div scale, frac |-> FracDigits(v % scale, scale)]

\* The number a text denotes (JSON.parse), in units of 1/scale.
RECURSIVE FracValue(_, _)
FracValue(digits, scale) ==
  IF digits = <<>> THEN 0
  ELSE Head(digits) * (scale \div 10) + FracValue(Tail(digits), scale \div 10)

NumberOf(text, scale) == text.int * scale + FracValue(text.frac, scale)

\* ((part / (total || 1)) * 100).toFixed(1): always one decimal.
Percentage(part, total) ==
  LET v == ToFixed(part * 100, IF total = 0 THEN 1 ELSE total, 10)
  IN [int |-> v \div 10, frac |-> <<v % 10>>]

RECURSIVE SumKeys(_, _)
SumKeys(obj, keys) ==
  IF keys = {} THEN 0
  ELSE LET k == CHOOSE k \in keys : TRUE IN obj[k] + SumKeys(obj, keys \ {k})

\* The last bucket without the PRs of exactly two changes requested (a
\* variant C29 is tested against).
QualityBuckets_Strict(dist) ==
  [ clean |-> IF 0 \in DOMAIN dist THEN dist[0] ELSE 0,
    minor |-> IF 1 \in DOMAIN dist THEN dist[1] ELSE 0,
    multiple |-> SumKeys(dist, {k \in DOMAIN dist : k > 2}) ]

\* dist['0'] || 0, dist['1'] || 0, and the entries with parseInt(k) >= 2
\* summed (summary.js 483-487 and 663-667).
QualityBuckets(dist) ==
  [ clean |-> IF 0 \in DOMAIN dist THEN dist[0] ELSE 0,
    minor |-> IF 1 \in DOMAIN dist THEN dist[1] ELSE 0,
    multiple |-> SumKeys(dist, {k \in DOMAIN dist : k >= 2}) ]

\* The cells of the CSV export that carry values of the result. A cell
\* written as '' (the `|| ''` of a falsy number) is Null.
exportToCSV(data) ==
  LET s == data.summary
      totalPRs == IF s.totalPRs = 0 THEN 1 ELSE s.totalPRs
      q == QualityBuckets(s.changesRequestedDistribution)
      Count(n) == NumberText(n, 1)
      Row(n) == [value |-> Count(n), pct |-> Percentage(n, totalPRs)]
      OrBlank(t) == IF Truthy(t) THEN Some(NumberText(Val(t), 100)) ELSE Null
  IN [ summary |->
         [ totalPRs |-> Count(s.totalPRs),
           mergedPRs |-> Row(s.mergedPRs),
           openPRs |-> Row(s.openPRs),
           closedPRs |-> Row(s.closedPRs),
           reposContributed |-> Count(s.reposContributed),
           totalComments |-> Count(s.totalComments),
           avgCommentsPerPR |-> NumberText(s.avgCommentsPerPR, 100),
           totalChangesRequested |-> Count(s.totalChangesRequested),
           avgChangesRequestedPerPR |-> NumberText(s.avgChangesRequestedPerPR, 100),
           avgTimeToMerge |-> NumberText(s.avgTimeToMerge, 100),
           totalIssuesCreated |-> Count(s.totalIssuesCreated),
           openIssuesCreated |-> Count(s.openIssuesCreated),
           closedIssuesCreated |-> Count(s.closedIssuesCreated),
           totalIssuesAssigned |-> Count(s.totalIssuesAssigned),
           openIssuesAssigned |-> Count(s.openIssuesAssigned),
           closedIssuesAssigned |-> Count(s.closedIssuesAssigned),
           totalPRsReviewed |-> Count(s.totalPRsReviewed),
           aiAssistedPRs |-> [value |-> Count(s.aiAssistedPRs),
                              pct |-> NumberText(s.aiAssistedPercentage, 10)],
           cleanPRs |-> Row(q.clean),
           minorRevisions |-> Row(q.minor),
           multipleRevisions |-> Row(q.multiple),
           aiTools |-> [t \in DOMAIN s.aiToolsBreakdown |->
                          Count(s.aiToolsBreakdown[t])] ],
       prs |->
         [i \in 1..Len(data.prs) |->
            LET pr == data.prs[i] IN
            [ number |-> Count(pr.number),
              repo |-> pr.repo,
              state |-> pr.state,
              merged |-> IF pr.merged THEN "Yes" ELSE "No",
              comments |-> Count(pr.comments),
              changesRequested |-> Count(pr.changesRequested),
              timeToMerge |-> OrBlank(pr.timeToMerge),
              aiAssisted |-> IF pr.aiAssisted THEN "Yes" ELSE "No",
              aiTools |-> pr.aiTools ]],
       repoBreakdown |->
         [i \in 1..Len(data.repoBreakdown) |->
            LET repo == data.repoBreakdown[i] IN
            [ repo |-> repo.repo,
              totalPRs |-> Count(repo.totalPRs),
              mergedPRs |-> Count(repo.mergedPRs),
              totalComments |-> Count(repo.totalComments),
              changesRequested |-> Count(repo.changesRequested),
              avgTimeToMerge |-> OrBlank(repo.avgTimeToMerge) ]] ]

\* The cells of the table output that carry values of the result. A cell
\* shown as '-' is Null. Repository names are short enough to be shown in
\* full.
formatSummaryTable(data) ==
  LET s == data.summary
      totalPRs == IF s.totalPRs = 0 THEN 1 ELSE s.totalPRs
      q == QualityBuckets(s.changesRequestedDistribution)
      Count(n) == NumberText(n, 1)
      WithPct(n) == [value |-> Count(n), pct |-> Percentage(n, totalPRs)]
      WithPctOf(n, total) ==
        [value |-> Count(n), pct |-> Percentage(n, IF total = 0 THEN 1 ELSE total)]
  IN [ overview |->
         [ prsRaised |-> Count(s.totalPRs),
           prsReviewed |-> Count(s.totalPRsReviewed),
           issuesCreated |-> Count(s.totalIssuesCreated),
           issuesAssigned |-> Count(s.totalIssuesAssigned),
           reposContributed |-> Count(s.reposContributed) ],
       prStats |->
         [ merged |-> WithPct(s.mergedPRs),
           open |-> WithPct(s.openPRs),
           closed |-> WithPct(s.closedPRs),
           totalComments |-> Count(s.totalComments),
           avgComments |-> NumberText(s.avgCommentsPerPR, 100),
           totalChangesRequested |-> Count(s.totalChangesRequested),
           avgChangesRequested |-> NumberText(s.avgChangesRequestedPerPR, 100),
           avgTimeToMerge |-> NumberText(s.avgTimeToMerge, 100) ],
       quality |->
         [ clean |-> WithPct(q.clean),
           minor |-> WithPct(q.minor),
           multiple |-> WithPct(q.multiple) ],
       issuesCreated |->
         [ total |-> Count(s.totalIssuesCreated),
           open |-> WithPctOf(s.openIssuesCreated, s.totalIssuesCreated),
           closed |-> WithPctOf(s.closedIssuesCreated, s.totalIssuesCreated) ],
       issuesAssigned |->
         [ total |-> Count(s.totalIssuesAssigned),
           open |-> WithPctOf(s.openIssuesAssigned, s.totalIssuesAssigned),
           closed |-> WithPctOf(s.closedIssuesAssigned, s.totalIssuesAssigned) ],
       reviewed |-> Count(s.totalPRsReviewed),
       ai |->
         [ aiAssisted |-> [value |-> Count(s.aiAssistedPRs),
                           pct |-> NumberText(s.aiAssistedPercentage, 10)],
           humanOnly |-> [value |-> Count(s.totalPRs - s.aiAssistedPRs),
                          pct |-> LET v == 1000 - s.aiAssistedPercentage
                                  IN [int |-> v \div 10, frac |-> <<v % 10>>]],
           tools |-> [t \in DOMAIN s.aiToolsBreakdown |->
                        Count(s.aiToolsBreakdown[t])] ],
       repos |->
         [i \in 1..Len(data.repoBreakdown) |->
            LET repo == data.repoBreakdown[i] IN
            [ repo |-> repo.repo,
              prs |-> Count(repo.totalPRs),
              merged |-> Count(repo.mergedPRs),
              comments |-> Count(repo.totalComments),
              changesReq |-> Count(repo.changesRequested),
              avgMergeTime |-> IF Truthy(repo.avgTimeToMerge)
                               THEN Some(NumberText(Val(repo.avgTimeToMerge), 100))
                               ELSE Null ]],
       prs |->
         [i \in 1..Len(data.prs) |->
            LET pr == data.prs[i] IN
            [ pr |-> Count(pr.number),
              repo |-> pr.repo,
              status |-> IF pr.merged THEN "Merged"
                         ELSE IF pr.state = "open" THEN "Open" ELSE "Closed",
              comments |-> Count(pr.comments),
              chgReq |-> Count(pr.changesRequested),
              ai |-> IF pr.aiAssisted THEN "Yes" ELSE "-" ]] ]

\* JSON.stringify(data, null, 2) of the summary command's result, value by
\* value: a number as its text, null as the token null, a boolean as the
\* token true or false, a string quoted, an object with its keys as
\* strings (the keys of changesRequestedDistribution are numerals).
JSONstringify(data) ==
  LET Num(v, scale) == [null |-> FALSE, text |-> NumberText(v, scale)]
      Nullable(x, scale) ==
        IF IsNull(x) THEN [null |-> TRUE, text |-> NumberText(0, 1)]
        ELSE Num(Val(x), scale)
      Bool(b) == IF b THEN "true" ELSE "false"
      Str(x) == <<"\"", x, "\"">>
      s == data.summary
      Counts == {"totalPRs", "mergedPRs", "openPRs", "closedPRs",
                 "reposContributed", "totalComments", "totalChangesRequested",
                 "aiAssistedPRs", "totalIssuesCreated", "openIssuesCreated",
                 "closedIssuesCreated", "totalIssuesAssigned",
                 "openIssuesAssigned", "closedIssuesAssigned",
                 "totalPRsReviewed"}
      Hundredths == {"avgCommentsPerPR", "avgChangesRequestedPerPR",
                     "avgTimeToMerge"}
  IN [ summary |->
         [ numbers |->
             [f \in Counts \cup Hundredths \cup {"aiAssistedPercentage"} |->
                Num(s[f], IF f \in Counts THEN 1
                          ELSE IF f \in Hundredths THEN 100 ELSE 10)],
           aiToolsBreakdown |->
             [t \in {Str(k) : k \in DOMAIN s.aiToolsBreakdown} |->
                Num(s.aiToolsBreakdown[t[2]], 1)],
           changesRequestedDistribution |->
             [t \in {NumberText(k, 1) : k \in DOMAIN s.changesRequestedDistribution} |->
                Num(s.changesRequestedDistribution[NumberOf(t, 1)], 1)] ],
       repoBreakdown |->
         [i \in 1..Len(data.repoBreakdown) |->
            LET r == data.repoBreakdown[i] IN
            [ repo |-> Str(r.repo),
              totalPRs |-> Num(r.totalPRs, 1),
              mergedPRs |-> Num(r.mergedPRs, 1),
              totalComments |-> Num(r.totalComments, 1),
              changesRequested |-> Num(r.changesRequested, 1),
              mergeTimesSum |-> Num(r.mergeTimesSum, 100),
              mergeTimesCount |-> Num(r.mergeTimesCount, 1),
              avgTimeToMerge |-> Nullable(r.avgTimeToMerge, 100) ]],
       prs |->
         [i \in 1..Len(data.prs) |->
            LET pr == data.prs[i] IN
            [ number |-> Num(pr.number, 1),
              repo |-> Str(pr.repo),
              state |-> Str(pr.state),
              merged |-> Bool(pr.merged),
              comments |-> Num(pr.comments, 1),
              changesRequested |-> Num(pr.changesRequested, 1),
              timeToMerge |-> Nullable(pr.timeToMerge, 100),
              aiAssisted |-> Bool(pr.aiAssisted),
              aiTools |-> [j \in 1..Len(pr.aiTools) |-> Str(pr.aiTools[j])] ]] ]

\* JSON.parse of that text: the object a reader of the export file gets.
JSONparse(json) ==
  LET Num(j, scale) == NumberOf(j.text, scale)
      Nullable(j, scale) == IF j.null THEN Null ELSE Some(Num(j, scale))
      Bool(t) == t = "true"
      Str(q) == q[2]
      Scale(f) ==
        IF f \in {"avgCommentsPerPR", "avgChangesRequestedPerPR", "avgTimeToMerge"}
        THEN 100
        ELSE IF f = "aiAssistedPercentage" THEN 10 ELSE 1
      n == json.summary.numbers
      tools == json.summary.aiToolsBreakdown
      dist == json.summary.changesRequestedDistribution
  IN [ summary |->
         [f \in DOMAIN n |-> Num(n[f], Scale(f))] @@
         [ aiToolsBreakdown |->
             [k \in {Str(t) : t \in DOMAIN tools} |-> Num(tools[<<"\"", k, "\"">>], 1)],
           changesRequestedDistribution |->
             [k \in {NumberOf(t, 1) : t \in DOMAIN dist} |->
                Num(dist[NumberText(k, 1)], 1)] ],
       repoBreakdown |->
         [i \in 1..Len(json.repoBreakdown) |->
            LET r == json.repoBreakdown[i] IN
            [ repo |-> Str(r.repo),
              totalPRs |-> Num(r.totalPRs, 1),
              mergedPRs |-> Num(r.mergedPRs, 1),
              totalComments |-> Num(r.totalComments, 1),
              changesRequested |-> Num(r.changesRequested, 1),
              mergeTimesSum |-> Num(r.mergeTimesSum, 100),
              mergeTimesCount |-> Num(r.mergeTimesCount, 1),
              avgTimeToMerge |-> Nullable(r.avgTimeToMerge, 100) ]],
       prs |->
         [i \in 1..Len(json.prs) |->
            LET pr == json.prs[i] IN
            [ number |-> Num(pr.number, 1),
              repo |-> Str(pr.repo),
              state |-> Str(pr.state),
              merged |-> Bool(pr.merged),
              comments |-> Num(pr.comments, 1),
              changesRequested |-> Num(pr.changesRequested, 1),
              timeToMerge |-> Nullable(pr.timeToMerge, 100),
              aiAssisted |-> Bool(pr.aiAssisted),
              aiTools |-> [j \in 1..Len(pr.aiTools) |-> Str(pr.aiTools[j])] ]] ]

\* What the run shows for its result and what it writes to the export file.
\* The table formatters of the other commands are not modelled.
ShownAs(c, format, data) ==
  IF c # "summary" THEN [format |-> format, text |-> <<>>]
  ELSE [format |-> format,
        text |-> IF format = "json" THEN JSONstringify(data)
                 ELSE formatSummaryTable(data)]

WrittenAs(c, kind, data) ==
  IF c # "summary" THEN <<>>
  ELSE IF kind = "csv" THEN exportToCSV(data) ELSE JSONstringify(data)

----------------------------------------------------------------------------
(* One run of a command: prMetrics (pr-metrics.js 119-190), userStats      *)
(* (github-client.js 561-785), repoStats (pr-metrics.js 209-279) and       *)
(* summary (summary.js 921-1209).                                          *)

Commands == {"pr", "user", "repo", "summary"}
LoopCommands == {"pr", "user", "summary"}

\* const token = options.token || process.env.GITHUB_TOKEN; "" stands for an
\* option or variable that is not set.
TokenOf(o, e) == IF o.token # "" THEN o.token ELSE e

\* A constructor without the token test (a variant C3 is tested against).
ConstructorThrows_Never(token) == FALSE

\* GitHubClient.constructor: `if (!token) throw`
ConstructorThrows(token) == token = ""

EmptySide == [issues |-> <<>>, assigned |-> <<>>, reviewed |-> <<>>]

\* A handler without the early exit (a variant C20 is tested against).
NothingFound_Never(c, list, side) == FALSE

\* The `length === 0` test that ends the command with an informational
\* message: pr-metrics.js 133, github-client.js 584, summary.js 954.
NothingFound(c, list, side) ==
  CASE c = "pr"      -> Len(list) = 0
    [] c = "user"    -> Len(list) = 0 /\ Len(side.issues) = 0
    [] c = "summary" -> Len(list) = 0 /\ Len(side.issues) = 0 /\ Len(side.assigned) = 0
    [] OTHER         -> FALSE

\* The list fetches awaited together at position p of a handler: the array
\* handed to Promise.all (user, summary), or the one fetch awaited (pr;
\* repo, which awaits its two fetches one after the other).
ListNames(c, p) ==
  CASE c = "pr"      -> {"prs"}
    [] c = "user"    -> {"prs", "issues"}
    [] c = "summary" -> {"prs", "issues", "assigned", "reviewed"}
    [] OTHER         -> IF p = "fetch" THEN {"stats"} ELSE {"prs"}

\* Number of list fetches awaited together before the loop.
ListFetches(c) == Cardinality(ListNames(c, "fetch"))

\* Requests of the per-PR follow-up, and the answers when all resolve.
RequestsOf(c) == IF c = "pr" THEN PRDetailsRequests ELSE FollowUpRequests
AnswersOf(c)  == IF c = "pr" THEN PRDetailsAnswers ELSE FollowUps

\* The answers the remote can give for one listed PR: pulls.get reports the
\* PR in the state the list reported it in (the remote does not change
\* during a run).
AnswersFor(c, pr) ==
  {a \in AnswersOf(c) :
     c = "pr" => /\ a.pr.state = pr.state
                 /\ IsNull(a.pr.merged_at) = IsNull(pr.merged_at)}

\* pulls.list is called with `state: options.state || 'all'`. The remote
\* knows the states open, closed and all; given another value it takes the
\* parameter for its default (open) or ignores it, unless it rejects the
\* request.
StateServed(c, state) ==
  IF c # "pr" \/ state = "all" THEN {"all"}
  ELSE IF state \in {"open", "closed"} THEN {state}
  ELSE {"open", "all"}

Listed(items, state) ==
  SelectSeq(items, LAMBDA item : state = "all" \/ item.state = state)

\* The try block of one loop iteration when every request resolved: the
\* record is pushed, the repository aggregate updated, '.' written.
ResolvedStep(c, st, pr, ans) ==
  IF c = "pr"
  THEN [ prDetails |-> Append(st.prDetails, calculatePRMetrics(pr.number, ans)),
         repoMap   |-> st.repoMap,
         stdout    |-> Append(st.stdout, ".") ]
  ELSE LET prData == PRData(c, pr, ans) IN
       [ prDetails |-> Append(st.prDetails, prData),
         repoMap   |-> AggregateRepo(st.repoMap, prData),
         stdout    |-> Append(st.stdout, ".") ]

\* A catch block reached after the repository's entry was created (a variant
\* C2 is tested against).
RejectedStep_CountsRepo(c, st, pr) ==
  [ prDetails |-> st.prDetails,
    repoMap   |-> IF c = "pr" \/ HasRepo(st.repoMap, RepoFullName(pr.repository_url))
                  THEN st.repoMap
                  ELSE Append(st.repoMap, NewRepoStats(RepoFullName(pr.repository_url))),
    stdout    |-> Append(st.stdout, "x") ]

\* A catch block that writes nothing (a variant C18 is tested against).
RejectedStep_Silent(c, st, pr) ==
  [ prDetails |-> st.prDetails,
    repoMap   |-> st.repoMap,
    stdout    |-> st.stdout ]

\* The catch block: a request rejected, 'x' is written and nothing else.
RejectedStep(c, st, pr) ==
  [ prDetails |-> st.prDetails,
    repoMap   |-> st.repoMap,
    stdout    |-> Append(st.stdout, "x") ]

LoopState == [prDetails |-> prDetails, repoMap |-> repoMap, stdout |-> stdout]

\* const result = {...}
ResultOf(c, o, details, map, side) ==
  IF c = "pr"
  THEN [ totalPRs |-> Len(details),
         mergedPRs |-> Len(MergedOf(details)),
         summary |-> calculateSummary(details, MergedOf(details)),
         prs |-> details ]
  ELSE [ summary |-> SummaryOf(c, details, map, side),
         repoBreakdown |-> RepoBreakdown(map, o.top),
         prs |-> details ]

\* repoStats: prCounts, contributors sorted by commits (descending, stable)
\* and cut to the top N (pr-metrics.js 231-259).
RECURSIVE InsertByCommits(_, _)
InsertByCommits(sorted, x) ==
  IF sorted = <<>> THEN <<x>>
  ELSE IF Head(sorted).commits >= x.commits
       THEN <<Head(sorted)>> \o InsertByCommits(Tail(sorted), x)
       ELSE <<x>> \o sorted

\* The contributors left in the order of the statistics (a variant C23 is
\* tested against).
SortByCommitsDesc_Unsorted(s) == s

RECURSIVE SortByCommitsDesc(_)
SortByCommitsDesc(s) ==
  IF s = <<>> THEN <<>>
  ELSE InsertByCommits(SortByCommitsDesc(SubSeq(s, 1, Len(s) - 1)), s[Len(s)])

RepoResultOf(o, stats, list) ==
  LET prCount(login) == CountIf(list, LAMBDA p : p.user.login = login)
      contributors == [i \in 1..Len(stats) |->
                         [ login |-> stats[i].author.login,
                           commits |-> stats[i].total,
                           prs |-> prCount(stats[i].author.login) ]]
      sorted == SortByCommitsDesc(contributors)
  IN [ totalContributors |-> Len(stats),
       totalPRs |-> Len(list),
       contributors |-> SubSeq(sorted, 1, Min(o.top, Len(sorted))) ]

\* A catch block that exits without printing the error (a variant C12 is
\* tested against).
Fail_Silent ==
  /\ pc' = "failed"
  /\ UNCHANGED stdout
  /\ exitCode' = 1

\* catch (error) { printError(error.message); process.exit(1); }
Fail ==
  /\ pc' = "failed"
  /\ stdout' = Append(stdout, "error")
  /\ exitCode' = 1

\* new GitHubClient(token)
Construct ==
  /\ pc = "start"
  /\ IF ConstructorThrows(TokenOf(options, env))
     THEN /\ Fail
     ELSE /\ pc' = "fetch"
          /\ stdout' = Append(stdout, "info:fetching")
          /\ UNCHANGED exitCode
  /\ UNCHANGED <<cmd, options, env, requests, remote, prs, sideLists, idx,
                 prDetails, repoMap, answers, result, exported>>
  /\ UNCHANGED <<shown, inFlight, runsLeft, firstRun, resolvedLists>>
  /\ UNCHANGED <<fetchVars, aiVars>>

\* The list fetches of pr, user and summary resolve (Promise.all).
FetchLists ==
  /\ pc = "fetch"
  /\ cmd \in LoopCommands
  /\ requests' = requests + ListFetches(cmd)
  /\ \E state \in StateServed(cmd, options.state) :
       LET list == Listed(remote.prs, state) IN
       /\ prs' = list
       /\ IF NothingFound(cmd, list, remote.side)
          THEN /\ pc' = "returned"
               /\ stdout' = Append(stdout, "info:none")
          ELSE /\ pc' = "loop"
               /\ stdout' = Append(stdout, "info:found")
  /\ sideLists' = remote.side
  /\ UNCHANGED <<cmd, options, env, remote, idx, prDetails, repoMap, answers,
                 result, exported, exitCode>>
  /\ UNCHANGED <<shown, inFlight, runsLeft, firstRun>>
  /\ resolvedLists' = ListNames(cmd, pc)
  /\ UNCHANGED <<fetchVars, aiVars>>

\* A rejected list fetch taken for an empty list, as the per-PR loop takes
\* a rejected follow-up (a variant C24 is tested against).
ListFetchRejected_Skipped ==
  /\ pc = "fetch"
  /\ cmd \in LoopCommands
  /\ requests' = requests + Cardinality(ListNames(cmd, pc))
  /\ \E failed \in ListNames(cmd, pc) :
       \E others \in SUBSET (ListNames(cmd, pc) \ {failed}) :
         resolvedLists' = resolvedLists \cup others
  /\ pc' = "loop"
  /\ stdout' = Append(stdout, "x")
  /\ UNCHANGED <<cmd, options, env, remote, prs, sideLists, idx, prDetails,
                 repoMap, answers, result, exported, exitCode>>
  /\ UNCHANGED <<shown, inFlight, runsLeft, firstRun>>
  /\ UNCHANGED <<fetchVars, aiVars>>

\* A top-level fetch rejects: the error reaches the handler's catch. The
\* fetches handed to Promise.all have all sent their first request by
\* then; `failed` is the one that rejects, `others` those that had resolved
\* before it did, and nothing is assigned to the lists.
ListFetchRejected ==
  /\ pc \in {"fetch", "fetchRepoPRs"}
  /\ requests' = requests + Cardinality(ListNames(cmd, pc))
  /\ \E failed \in ListNames(cmd, pc) :
       \E others \in SUBSET (ListNames(cmd, pc) \ {failed}) :
         resolvedLists' = resolvedLists \cup others
  /\ Fail
  /\ UNCHANGED <<cmd, options, env, remote, prs, sideLists, idx, prDetails,
                 repoMap, answers, result, exported>>
  /\ UNCHANGED <<shown, inFlight, runsLeft, firstRun>>
  /\ UNCHANGED <<fetchVars, aiVars>>

\* The loop reaches prs[idx] and sends its follow-up requests together:
\* the array handed to Promise.all.
IssueFollowUps ==
  /\ pc = "loop"
  /\ idx <= Len(prs)
  /\ requests' = requests + Cardinality(RequestsOf(cmd))
  /\ inFlight' = inFlight \cup {idx}
  /\ pc' = "await"
  /\ UNCHANGED <<cmd, options, env, remote, prs, sideLists, idx, prDetails,
                 repoMap, answers, stdout, result, exported, exitCode, shown,
                 runsLeft, firstRun>>
  /\ UNCHANGED resolvedLists
  /\ UNCHANGED <<fetchVars, aiVars>>

\* A catch block that tries the same PR again (a variant C19 is tested
\* against).
AfterCatch_Retry(i) == i

\* The catch block only writes 'x': the for...of loop goes on with the next
\* element of prs.
AfterCatch(i) == i + 1

\* An await that ends with requests of the PR still in flight (a variant
\* C16 is tested against).
AllSettled_Pending(flying, i) == flying

\* Promise.all resolves when every request of the array has resolved:
\* none of the PR's requests is in flight any more.
AllSettled(flying, i) == flying \ {i}

\* Promise.all rejects as soon as one request rejects, whatever the others
\* do: those not yet settled stay in flight.
FirstRejected(flying, i, pending) == IF pending = {} THEN flying \ {i} ELSE flying

\* The rest of the iteration, every follow-up request of the PR resolved.
PRResolved ==
  /\ pc = "await"
  /\ \E ans \in AnswersFor(cmd, prs[idx]) :
       LET st == ResolvedStep(cmd, LoopState, prs[idx], ans) IN
       /\ prDetails' = st.prDetails
       /\ repoMap' = st.repoMap
       /\ stdout' = st.stdout
       /\ answers' = Append(answers, Some(ans))
  /\ inFlight' = AllSettled(inFlight, idx)
  /\ idx' = idx + 1
  /\ pc' = "loop"
  /\ UNCHANGED <<cmd, options, env, requests, remote, prs, sideLists, result,
                 exported, exitCode, shown, runsLeft, firstRun>>
  /\ UNCHANGED resolvedLists
  /\ UNCHANGED <<fetchVars, aiVars>>

\* The rest of the iteration, some follow-up request of the PR rejected
\* first while the requests in `pending` had not settled.
PRRejected ==
  /\ pc = "await"
  /\ \E first \in RequestsOf(cmd) :
       \E pending \in SUBSET (RequestsOf(cmd) \ {first}) :
         inFlight' = FirstRejected(inFlight, idx, pending)
  /\ LET st == RejectedStep(cmd, LoopState, prs[idx]) IN
       /\ prDetails' = st.prDetails
       /\ repoMap' = st.repoMap
       /\ stdout' = st.stdout
  /\ answers' = Append(answers, Null)
  /\ idx' = AfterCatch(idx)
  /\ pc' = "loop"
  /\ UNCHANGED <<cmd, options, env, requests, remote, prs, sideLists, result,
                 exported, exitCode, shown, runsLeft, firstRun>>
  /\ UNCHANGED resolvedLists
  /\ UNCHANGED <<fetchVars, aiVars>>

\* The requests a skipped PR left in flight settle, nobody awaiting them.
StragglerSettles ==
  /\ \E i \in inFlight :
       /\ ~(pc = "await" /\ i = idx)
       /\ inFlight' = inFlight \ {i}
  /\ UNCHANGED <<cmd, options, env, pc, requests, remote, prs, sideLists, idx,
                 prDetails, repoMap, answers, stdout, result, exported,
                 exitCode, shown, runsLeft, firstRun>>
  /\ UNCHANGED resolvedLists
  /\ UNCHANGED <<fetchVars, aiVars>>

\* After the loop: console.log(), the summary and the result object.
Summarize ==
  /\ pc = "loop"
  /\ idx > Len(prs)
  /\ result' = Some(ResultOf(cmd, options, prDetails, repoMap, sideLists))
  /\ stdout' = Append(stdout, "\n")
  /\ pc' = "render"
  /\ UNCHANGED <<cmd, options, env, requests, remote, prs, sideLists, idx,
                 prDetails, repoMap, answers, exported, exitCode>>
  /\ UNCHANGED <<shown, inFlight, runsLeft, firstRun, resolvedLists>>
  /\ UNCHANGED <<fetchVars, aiVars>>

\* repoStats: fetchContributorStats resolves.
RepoFetchStats ==
  /\ pc = "fetch"
  /\ cmd = "repo"
  /\ requests' = requests + 1
  /\ IF IsNull(remote.stats)
     THEN /\ pc' = "returned"
          /\ stdout' = Append(stdout, "info:computing")
     ELSE /\ pc' = "fetchRepoPRs"
          /\ UNCHANGED stdout
  /\ UNCHANGED <<cmd, options, env, remote, prs, sideLists, idx, prDetails,
                 repoMap, answers, result, exported, exitCode>>
  /\ UNCHANGED <<shown, inFlight, runsLeft, firstRun>>
  /\ resolvedLists' = ListNames(cmd, pc)
  /\ UNCHANGED <<fetchVars, aiVars>>

\* repoStats: fetchRepoPRs resolves and the result is built.
RepoFetchPRs ==
  /\ pc = "fetchRepoPRs"
  /\ requests' = requests + 1
  /\ prs' = remote.prs
  /\ result' = Some(RepoResultOf(options, Val(remote.stats), remote.prs))
  /\ pc' = "render"
  /\ UNCHANGED <<cmd, options, env, remote, sideLists, idx, prDetails, repoMap,
                 answers, stdout, exported, exitCode>>
  /\ UNCHANGED <<shown, inFlight, runsLeft, firstRun>>
  /\ resolvedLists' = resolvedLists \cup ListNames(cmd, pc)
  /\ UNCHANGED <<fetchVars, aiVars>>

\* switch (options.format): formatJSON or the table formatter.
Render ==
  /\ pc = "render"
  /\ stdout' = Append(stdout, IF options.format = "json" THEN "json" ELSE "table")
  /\ shown' = Some(ShownAs(cmd, options.format, Val(result)))
  /\ pc' = "export"
  /\ UNCHANGED <<cmd, options, env, requests, remote, prs, sideLists, idx,
                 prDetails, repoMap, answers, result, exported, exitCode>>
  /\ UNCHANGED <<inFlight, runsLeft, firstRun>>
  /\ UNCHANGED resolvedLists
  /\ UNCHANGED <<fetchVars, aiVars>>

\* --export <filename>: the file name as its stem and extension; NoFile when
\* the option is not given.
NoFile == <<>>
EndsWith(f, ext) == f # NoFile /\ f[Len(f)] = ext

\* The export of the summary command (summary.js 1196-1203) writes CSV to a
\* name ending in .csv and JSON otherwise, adding .json to a name without
\* it; the other commands write JSON to the name as given.
ExportKind(c, f) == IF c = "summary" /\ EndsWith(f, ".csv") THEN "csv" ELSE "json"
ExportName(c, f) ==
  IF c = "summary" /\ ~EndsWith(f, ".csv") /\ ~EndsWith(f, ".json")
  THEN Append(f, ".json") ELSE f

\* if (options.export) exportToFile(result, options.export): writeFileSync
\* writes the file, or throws into the handler's catch.
Export ==
  /\ pc = "export"
  /\ IF options.export = NoFile
     THEN /\ pc' = "done"
          /\ UNCHANGED <<exported, stdout, exitCode>>
     ELSE \/ /\ exported' = Append(exported,
                                   [file |-> ExportName(cmd, options.export),
                                    kind |-> ExportKind(cmd, options.export),
                                    data |-> Val(result),
                                    text |-> WrittenAs(cmd,
                                               ExportKind(cmd, options.export),
                                               Val(result))])
             /\ stdout' = Append(stdout, "exported")
             /\ pc' = "done"
             /\ UNCHANGED exitCode
          \/ /\ Fail
             /\ UNCHANGED exported
  /\ UNCHANGED <<cmd, options, env, requests, remote, prs, sideLists, idx,
                 prDetails, repoMap, answers, result>>
  /\ UNCHANGED <<shown, inFlight, runsLeft, firstRun, resolvedLists>>
  /\ UNCHANGED <<fetchVars, aiVars>>

----------------------------------------------------------------------------
\* Collections that outlive the invocation (a variant C13 is tested
\* against).
FreshArray_Kept(previous) == previous

\* const prDetails = []; const repoMap = new Map(): the collections are
\* locals of the handler, created anew by each invocation whatever an
\* earlier invocation held.
FreshArray(previous) == <<>>

Terminated == pc \in {"done", "returned", "failed"}

\* The command is invoked again with the same options against the same
\* remote: a new process, with the files earlier invocations wrote still
\* on disk.
Rerun ==
  /\ Terminated
  /\ runsLeft > 0
  /\ runsLeft' = runsLeft - 1
  /\ firstRun' = Some([prs |-> prs, sideLists |-> sideLists,
                       answers |-> answers,
                       rejected |-> (pc = "failed" /\ IsNull(result)),
                       result |-> result, files |-> exported])
  /\ pc' = "start"
  /\ requests' = 0
  /\ prs' = <<>>
  /\ sideLists' = EmptySide
  /\ idx' = 1
  /\ prDetails' = FreshArray(prDetails)
  /\ repoMap' = FreshArray(repoMap)
  /\ answers' = <<>>
  /\ stdout' = <<>>
  /\ result' = Null
  /\ exported' = <<>>
  /\ exitCode' = 0
  /\ shown' = Null
  /\ inFlight' = {}
  /\ UNCHANGED <<cmd, options, env, remote>>
  /\ resolvedLists' = {}
  /\ UNCHANGED <<fetchVars, aiVars>>

----------------------------------------------------------------------------
(* The inputs of a run: the options, the environment and what the remote   *)
(* holds. Three families bound the exploration: long PR lists with default *)
(* options and no other list, every token source with short lists, and     *)
(* every combination of the other lists and output options with short      *)
(* lists.                                                                  *)

MaxSmall   == 1    \* model bound: PR list length in the two short-list families
DefaultTop == 10   \* --top default

\* --state is an option of the pr command, 'all' unless given.
Opt(token, format, export, top) ==
  [token |-> token, format |-> format, export |-> export, top |-> top,
   state |-> "all"]

\* The lists the remote answers a list fetch with: newest first (the search
\* is sent with sort: 'created', order: 'desc', the default of pulls.list),
\* each PR once.
ListsOf(S, n) ==
  {l \in SeqUpTo(S, n) :
     \A i, j \in 1..Len(l) : i < j => l[i].created_at > l[j].created_at}

\* --top as given on the command line: the default, or fewer than the
\* repositories (contributors) there are.
Tops(c) == IF c = "pr" THEN {DefaultTop} ELSE {1, DefaultTop}

\* What the list fetch of a command can return: items of the search (user,
\* summary), the given user's pulls (pr), anybody's pulls (repo).
ItemsOf(c) ==
  CASE c \in {"user", "summary"} -> PRItems
    [] c = "pr" -> {item \in PullItems : item.user.login = "u"}
    [] OTHER -> PullItems

ContributorStats ==
  << [author |-> [login |-> "u"], total |-> 3],
     [author |-> [login |-> "w"], total |-> 7] >>

\* fetchContributorStats: nothing while GitHub computes the statistics, else
\* the contributors (none in an empty repository).
StatsOf(c) ==
  IF c = "repo" THEN {Null, Some(<<>>), Some(ContributorStats)} ELSE {Null}

IssueLists == SeqUpTo(IssueItems, MaxSide)

\* The other lists a command fetches: issues (user); issues created,
\* issues assigned and PRs reviewed (summary).
SidesOf(c) ==
  CASE c = "user"    -> {[EmptySide EXCEPT !.issues = l] : l \in IssueLists}
    [] c = "summary" -> [issues : IssueLists, assigned : IssueLists,
                         reviewed : IssueLists]
    [] OTHER         -> {EmptySide}

\* All of a command's other lists of the same length.
EvenSidesOf(c) ==
  {sd \in SidesOf(c) : c = "summary" =>
     Len(sd.issues) = Len(sd.assigned) /\ Len(sd.assigned) = Len(sd.reviewed)}

Input(c, o, e, list, sd, stats) ==
  [cmd |-> c, options |-> o, env |-> e, runs |-> 1,
   remote |-> [prs |-> list, side |-> sd, stats |-> stats]]

\* The export file of the runs over long lists: the summary command
\* writes its CSV or its JSON file, the other commands write none.
LoopExports(c) ==
  IF c = "summary" THEN {<<"out">>, <<"out", ".csv">>} ELSE {NoFile}

ScopeLoop(c) ==
  { Input(c, Opt("tok", "table", x, top), "", list, sd, stats) :
      top \in Tops(c), x \in LoopExports(c),
      list \in ListsOf(ItemsOf(c), MaxPRs), sd \in {EmptySide},
      stats \in StatsOf(c) }

ScopeCred(c) ==
  { Input(c, Opt(t, "table", NoFile, DefaultTop), e, list, sd, stats) :
      t \in {"", "tok"}, e \in {"", "envtok"},
      list \in ListsOf(ItemsOf(c), MaxSmall), sd \in EvenSidesOf(c),
      stats \in StatsOf(c) }

ScopeLists(c) ==
  { Input(c, Opt("tok", f, x, DefaultTop), "", list, sd, stats) :
      f \in {"table", "json"}, x \in {NoFile, <<"out", ".json">>, <<"out", ".csv">>, <<"out">>},
      list \in ListsOf(ItemsOf(c), MaxSmall), sd \in SidesOf(c),
      stats \in StatsOf(c) }

\* The pr command with --state given.
ScopeState(c) ==
  IF c # "pr" THEN {}
  ELSE { [Input(c, Opt("tok", "table", NoFile, DefaultTop), "", list,
                EmptySide, Null) EXCEPT !.options.state = st] :
           st \in {"open", "closed", "merged"},
           list \in ListsOf(ItemsOf(c), MaxPRs) }

\* The command invoked twice in a row, exporting each time.
ScopeRerun(c) ==
  { [Input(c, Opt("tok", "table", <<"out", ".json">>, DefaultTop), "", list,
           EmptySide, stats) EXCEPT !.runs = 2] :
      list \in ListsOf(ItemsOf(c), MaxSmall), stats \in StatsOf(c) }

Inputs ==
  UNION {ScopeLoop(c) \cup ScopeCred(c) \cup ScopeLists(c) \cup ScopeState(c)
           \cup ScopeRerun(c) : c \in Commands}

InitCmd ==
  /\ \E i \in Inputs :
       /\ cmd = i.cmd
       /\ options = i.options
       /\ env = i.env
       /\ remote = i.remote
       /\ runsLeft = i.runs - 1
  /\ pc = "start"
  /\ requests = 0
  /\ prs = <<>>
  /\ sideLists = EmptySide
  /\ idx = 1
  /\ prDetails = <<>>
  /\ repoMap = <<>>
  /\ answers = <<>>
  /\ stdout = <<>>
  /\ result = Null
  /\ exported = <<>>
  /\ exitCode = 0
  /\ shown = Null
  /\ inFlight = {}
  /\ firstRun = Null
  /\ resolvedLists = {}

CmdIdle ==
  /\ cmd = "none"
  /\ options = Opt("", "table", NoFile, DefaultTop)
  /\ env = ""
  /\ remote = [prs |-> <<>>, side |-> EmptySide, stats |-> Null]
  /\ pc = "done"
  /\ requests = 0
  /\ prs = <<>>
  /\ sideLists = EmptySide
  /\ idx = 1
  /\ prDetails = <<>>
  /\ repoMap = <<>>
  /\ answers = <<>>
  /\ stdout = <<>>
  /\ result = Null
  /\ exported = <<>>
  /\ exitCode = 0
  /\ shown = Null
  /\ inFlight = {}
  /\ runsLeft = 0
  /\ firstRun = Null
  /\ resolvedLists = {}

----------------------------------------------------------------------------
(* The specifications. *)

NextFetch ==
  \/ RequestPage
  \/ RequestRejected
  \/ ReturnCollected

InitSpecFetch == InitFetch /\ AIIdle /\ CmdIdle

SpecFetch == InitSpecFetch /\ [][NextFetch]_vars

NextAI ==
  \/ DetectCommit
  \/ EndIteration

InitSpecAI == FetchIdle /\ InitAI /\ CmdIdle

SpecAI == InitSpecAI /\ [][NextAI]_vars

Next ==
  \/ Construct
  \/ FetchLists
  \/ ListFetchRejected
  \/ IssueFollowUps
  \/ PRResolved
  \/ PRRejected
  \/ StragglerSettles
  \/ Summarize
  \/ RepoFetchStats
  \/ RepoFetchPRs
  \/ Render
  \/ Export
  \/ Rerun

Init == FetchIdle /\ AIIdle /\ InitCmd

Spec == Init /\ [][Next]_vars

\* Every request the program sends: a paginated fetch of the client, or a
\* run of a command with its list fetches and follow-ups.
InitRequests == InitSpecFetch \/ Init

NextRequests == NextFetch \/ Next

SpecRequests == InitRequests /\ [][NextRequests]_vars

----------------------------------------------------------------------------
(* Properties of the paginated fetches (SpecFetch).                        *)

\* Page i was requested only after full pages 1..i-1.
AfterFullPages(i) == \A j \in 1..(i - 1) : PageLen(respLog[j]) = PerPage

\* The loop has ended on its own terms: the last answered page was short, or
\* as many pages as the cap allows were answered.
StoppedAtShortPageOrCap ==
  \/ (respLog # <<>> /\ PageLen(respLog[Len(respLog)]) < PerPage)
  \/ Len(respLog) = SearchPageCap

\* C5: every paginated fetch, fetchUserPRs and fetchRepoPRs included, stops
\* asking for pages once a short page has come back or a hard cap on the
\* number of pages (10, the client's cap) has been reached, so that it ends
\* whatever pages the remote returns: no request is made beyond the cap or
\* after a short page.
C5_EveryFetchStops ==
  \A i \in 1..Len(reqLog) : i <= SearchPageCap /\ AfterFullPages(i)

\* C6: a search-based fetch requests pages 1, 2, 3, ... in order, each once,
\* at most 10 of them, none after a short page, and returns the
\* concatenation of the pages it received (at most 1000 items), having
\* stopped at the first short page or at the cap.
C6_SearchFetchPages ==
  fn \in SearchFetchers =>
    /\ \A i \in 1..Len(reqLog) : reqLog[i] = i /\ AfterFullPages(i)
    /\ Len(reqLog) <= SearchPageCap
    /\ fpc = "done" =>
         /\ StoppedAtShortPageOrCap
         /\ collected = Flatten(respLog)
         /\ PageLen(collected) <= SearchPageCap * PerPage

\* A search-based fetch has returned after ten full pages.
C6_Witness ==
  /\ fn \in SearchFetchers
  /\ fpc = "done"
  /\ Len(reqLog) = SearchPageCap
  /\ PageLen(collected) = SearchPageCap * PerPage

----------------------------------------------------------------------------
(* Properties of the AI co-authorship detection (SpecAI).                  *)

NoDuplicates(s) == \A i, j \in 1..Len(s) : s[i] = s[j] => i = j

\* C8: the detection does not depend on the letter case of the trailer or
\* tag (the same message in the other case gives the same detection), and a
\* tool is listed at most once, both in the tools one call returns and in
\* the tools collected for the PR, however many commits and patterns match.
C8_CaseInsensitiveNoDuplicates ==
  /\ NoDuplicates(aiToolsUsed)
  /\ detection # NoDetection =>
       /\ detection = detectAICoAuthorship(SwapCaseMsg(commitMessage))
       /\ NoDuplicates(detection.aiTools)

\* Two commits matched; the second, written with capitals, matches both the
\* claude and the anthropic trailer: Claude is listed once.
C8_Witness ==
  /\ commitsSeen = 2 /\ matched = 2
  /\ commitMessage # Folded(commitMessage)
  /\ PatternTest(aiPatterns[1], commitMessage)
  /\ PatternTest(aiPatterns[2], commitMessage)
  /\ detection.aiTools = <<"Claude">>
  /\ aiToolsUsed = <<"Claude">>

----------------------------------------------------------------------------
(* Properties of the command runs (Spec).                                  *)

\* The user or summary command has built its result; its summary block.
HasSummary == cmd \in {"user", "summary"} /\ ~IsNull(result)
TheSummary == Val(result).summary

\* The positions of prs whose follow-up resolved, in loop order: record k of
\* prDetails is built from the PR at ResolvedIdx[k].
ResolvedIdx ==
  SelectSeq([i \in 1..Len(answers) |-> i], LAMBDA i : ~IsNull(answers[i]))

SomeFollowUpFailed == \E i \in 1..Len(answers) : IsNull(answers[i])

\* C1: in the result of the user and summary commands the merged, open and
\* closed counts add up to totalPRs, for any mix of PR states and whichever
\* per-PR follow-ups failed.
C1_StateCountsAddUp ==
  HasSummary =>
    TheSummary.mergedPRs + TheSummary.openPRs + TheSummary.closedPRs
      = TheSummary.totalPRs

\* A result with a merged PR (reported closed by the remote), a closed
\* unmerged PR and a PR whose follow-up failed.
C1_Witness ==
  /\ HasSummary
  /\ SomeFollowUpFailed
  /\ TheSummary.mergedPRs >= 1
  /\ TheSummary.closedPRs >= 1

\* The loop over list[i..] where every PR with a null answer is left out of
\* the list and every other follow-up resolves with its answer.
RECURSIVE RunWithout(_, _, _, _, _)
RunWithout(c, list, ans, i, st) ==
  IF i > Len(ans) THEN st
  ELSE RunWithout(c, list, ans, i + 1,
                  IF IsNull(ans[i]) THEN st
                  ELSE ResolvedStep(c, st, list[i], Val(ans[i])))

NothingDone == [prDetails |-> <<>>, repoMap |-> <<>>, stdout |-> <<>>]

\* C2: a PR whose follow-up fetch fails is skipped and the loop goes on: it
\* gets no record and counts in no repository aggregate, so the records, the
\* aggregates and the result are those of a run over the same list with the
\* failing PRs removed.
C2_FailedPRSkipped ==
  cmd \in LoopCommands /\ pc \in {"loop", "await", "render", "export", "done"} =>
    LET e == RunWithout(cmd, prs, answers, 1, NothingDone) IN
    /\ Len(prDetails) = Len(ResolvedIdx)
    /\ prDetails = e.prDetails
    /\ repoMap = e.repoMap
    /\ (pc \in {"loop", "await"} => Len(answers) = idx - 1)
    /\ (pc \notin {"loop", "await"} =>
                       /\ Len(answers) = Len(prs)
                       /\ Val(result) = ResultOf(cmd, options, e.prDetails,
                                                 e.repoMap, sideLists))

\* A finished run of three PRs in which the second follow-up failed and the
\* third, in another repository than the first, resolved.
C2_Witness ==
  /\ cmd = "summary" /\ pc = "done"
  /\ Len(answers) = 3
  /\ ~IsNull(answers[1]) /\ IsNull(answers[2]) /\ ~IsNull(answers[3])
  /\ prs[1].repository_url # prs[2].repository_url
  /\ prs[2].repository_url # prs[3].repository_url
  /\ Len(prDetails) = 2

\* C3: with no token in the options and none in the environment the command
\* fails with an error message and exit code 1 before any request is sent.
C3_MissingTokenFailsFirst ==
  options.token = "" /\ env = "" /\ pc # "start" =>
    /\ pc = "failed"
    /\ exitCode = 1
    /\ requests = 0
    /\ stdout = <<"error">>
    /\ IsNull(result)

\* A run without a token has failed although the remote had a PR to list.
C3_Witness ==
  /\ options.token = "" /\ env = ""
  /\ pc = "failed" /\ exitCode = 1 /\ requests = 0
  /\ Len(remote.prs) > 0

\* A time to merge is null when there is no merge time and a non-negative
\* number otherwise.
NullOrNonNegative(mergedAt, t) ==
  IF IsNull(mergedAt) THEN IsNull(t) ELSE ~IsNull(t) /\ Val(t) >= 0

\* C4: the time to merge of every PR record (timeToMergeInDays of the pr
\* command, timeToMerge of user and summary) is null when the PR has no
\* merged_at and a non-negative number of days otherwise.
C4_TimeToMergeNullOrNonNegative ==
  cmd \in LoopCommands /\ Len(prDetails) = Len(ResolvedIdx) =>
    \A k \in 1..Len(prDetails) :
      IF cmd = "pr"
      THEN NullOrNonNegative(Val(answers[ResolvedIdx[k]]).pr.merged_at,
                             prDetails[k].metrics.timeToMergeInDays)
      ELSE NullOrNonNegative(prs[ResolvedIdx[k]].merged_at,
                             prDetails[k].timeToMerge)

Abs(x) == IF x < 0 THEN 0 - x ELSE x

\* a hundredths is the multiple of 0.01 nearest to total / n.
NearestHundredth(a, total, n) == 2 * Abs(100 * total - a * n) <= n

\* C7: summary.avgCommentsPerPR is totalComments divided by totalPRs rounded
\* to two decimals, totalComments being the sum of the records' comments,
\* and is 0 when totalPRs is 0.
C7_AvgCommentsPerPR ==
  HasSummary =>
    LET sm == TheSummary
        records == Val(result).prs
    IN /\ sm.totalPRs = Len(records)
       /\ sm.totalComments = SumSeq([k \in 1..Len(records) |-> records[k].comments])
       /\ IF sm.totalPRs = 0 THEN sm.avgCommentsPerPR = 0
          ELSE NearestHundredth(sm.avgCommentsPerPR, sm.totalComments, sm.totalPRs)

\* Three records whose average number of comments is rounded up (x.67).
C7_Witness ==
  /\ HasSummary
  /\ TheSummary.totalPRs = 3
  /\ (TheSummary.totalComments * 100) % 3 = 2
  /\ TheSummary.avgCommentsPerPR * 3 > TheSummary.totalComments * 100

\* C9: a PR record is flagged aiAssisted exactly when some commit message of
\* the PR matches a known trailer or tag, and exactly when its aiTools list
\* is not empty; summary.aiAssistedPRs is the number of flagged records and
\* is at most totalPRs.
C9_AIAssistedFlag ==
  cmd \in {"user", "summary"} =>
    /\ Len(prDetails) = Len(ResolvedIdx)
    /\ \A k \in 1..Len(prDetails) :
         LET commits == Val(answers[ResolvedIdx[k]]).commits IN
         /\ prDetails[k].aiAssisted <=>
              \E j \in 1..Len(commits) : MatchesSomePattern(commits[j])
         /\ prDetails[k].aiAssisted <=> prDetails[k].aiTools # <<>>
    /\ ~IsNull(result) =>
         /\ TheSummary.aiAssistedPRs =
              Cardinality({k \in 1..Len(prDetails) : prDetails[k].aiAssisted})
         /\ TheSummary.aiAssistedPRs <= TheSummary.totalPRs

\* A result with a flagged record naming two tools and an unflagged record
\* whose commits mention a tool without matching a pattern.
C9_Witness ==
  /\ HasSummary
  /\ TheSummary.aiAssistedPRs = 1
  /\ TheSummary.totalPRs = 2
  /\ \E k \in 1..2 : prDetails[k].aiAssisted /\ Len(prDetails[k].aiTools) = 2
  /\ \E k \in 1..2 :
       /\ ~prDetails[k].aiAssisted
       /\ Len(Val(answers[ResolvedIdx[k]]).commits) = 2

\* The sum of the values of a finite function.
RECURSIVE SumValues(_)
SumValues(f) ==
  IF DOMAIN f = {} THEN 0
  ELSE LET k == CHOOSE j \in DOMAIN f : TRUE
       IN f[k] + SumValues([j \in DOMAIN f \ {k} |-> f[j]])

\* C10: summary.changesRequestedDistribution (summary command) is the
\* histogram of the records' changesRequested: a key for every value that
\* occurs and for no other, each with the number of records having that
\* value, the counts adding up to totalPRs; records with 0, 1 and 2 changes
\* requested give {0: 1, 1: 1, 2: 1}.
C10_ChangesRequestedDistribution ==
  cmd = "summary" /\ ~IsNull(result) =>
    LET dist == TheSummary.changesRequestedDistribution
        records == Val(result).prs
        With(v) == {k \in 1..Len(records) : records[k].changesRequested = v}
    IN /\ \A v \in DOMAIN dist : dist[v] = Cardinality(With(v)) /\ dist[v] > 0
       /\ \A k \in 1..Len(records) : records[k].changesRequested \in DOMAIN dist
       /\ SumValues(dist) = TheSummary.totalPRs
       /\ ([k \in 1..Len(records) |-> records[k].changesRequested] = <<0, 1, 2>>
             => dist = (0 :> 1) @@ (1 :> 1) @@ (2 :> 1))

\* Records with 0, 1 and 2 changes requested, in this order.
C10_Witness ==
  /\ cmd = "summary" /\ ~IsNull(result)
  /\ Len(prDetails) = 3
  /\ \A k \in 1..3 : Val(result).prs[k].changesRequested = k - 1
  /\ DOMAIN TheSummary.changesRequestedDistribution = {0, 1, 2}

\* The repositories of the records, and the number of records of one.
ReposOfRecords == {prDetails[k].repo : k \in 1..Len(prDetails)}
RecordsIn(r) == Cardinality({k \in 1..Len(prDetails) : prDetails[k].repo = r})

\* C11: repoBreakdown of the user and summary commands holds min(N, number
\* of repositories) entries, N being --top, one per repository, each with
\* the number of records of its repository, ordered by that number
\* descending; no repository left out has more records than one kept; and
\* summary.reposContributed counts every repository with a record.
C11_TopRepositories ==
  HasSummary =>
    LET rb == Val(result).repoBreakdown
        kept == {rb[i].repo : i \in 1..Len(rb)}
    IN /\ Len(rb) = Min(options.top, Cardinality(ReposOfRecords))
       /\ Cardinality(kept) = Len(rb)
       /\ kept \subseteq ReposOfRecords
       /\ \A i \in 1..Len(rb) : rb[i].totalPRs = RecordsIn(rb[i].repo)
       /\ \A i, j \in 1..Len(rb) : i < j => rb[i].totalPRs >= rb[j].totalPRs
       /\ \A r \in ReposOfRecords \ kept :
            \A i \in 1..Len(rb) : RecordsIn(r) <= rb[i].totalPRs
       /\ TheSummary.reposContributed = Cardinality(ReposOfRecords)

\* --top 1 with two repositories, the one met second having more records:
\* it is the entry kept, and both repositories are counted.
C11_Witness ==
  /\ HasSummary
  /\ options.top = 1
  /\ Len(repoMap) = 2
  /\ repoMap[2].totalPRs > repoMap[1].totalPRs
  /\ Len(Val(result).repoBreakdown) = 1
  /\ Val(result).repoBreakdown[1].repo = repoMap[2].repo
  /\ TheSummary.reposContributed = 2

----------------------------------------------------------------------------
(* Errors outside the per-PR loop *)

RenderMarkers == {"json", "table"}
Rendered == \E i \in 1..Len(stdout) : stdout[i] \in RenderMarkers
ErrorPrintedLast == stdout # <<>> /\ stdout[Len(stdout)] = "error"

----------------------------------------------------------------------------
(* Two invocations in a row *)

SecondRunEnded == ~IsNull(firstRun) /\ Terminated

\* The second invocation was answered as the first was: the same lists,
\* the same follow-up answers, the same rejections.
SameResponses ==
  /\ prs = Val(firstRun).prs
  /\ sideLists = Val(firstRun).sideLists
  /\ answers = Val(firstRun).answers
  /\ (pc = "failed" /\ IsNull(result)) = Val(firstRun).rejected

----------------------------------------------------------------------------
(* The summary command's export against its table *)

\* The values the table shows, under the names of the result's fields.
TableValues(tbl) ==
  [ totalPRs |-> tbl.overview.prsRaised,
    mergedPRs |-> tbl.prStats.merged.value,
    openPRs |-> tbl.prStats.open.value,
    closedPRs |-> tbl.prStats.closed.value,
    reposContributed |-> tbl.overview.reposContributed,
    totalComments |-> tbl.prStats.totalComments,
    avgCommentsPerPR |-> tbl.prStats.avgComments,
    totalChangesRequested |-> tbl.prStats.totalChangesRequested,
    avgChangesRequestedPerPR |-> tbl.prStats.avgChangesRequested,
    avgTimeToMerge |-> tbl.prStats.avgTimeToMerge,
    totalIssuesCreated |-> tbl.issuesCreated.total,
    openIssuesCreated |-> tbl.issuesCreated.open.value,
    closedIssuesCreated |-> tbl.issuesCreated.closed.value,
    totalIssuesAssigned |-> tbl.issuesAssigned.total,
    openIssuesAssigned |-> tbl.issuesAssigned.open.value,
    closedIssuesAssigned |-> tbl.issuesAssigned.closed.value,
    totalPRsReviewed |-> tbl.reviewed,
    aiAssistedPRs |-> tbl.ai.aiAssisted.value,
    aiAssistedPercentage |-> tbl.ai.aiAssisted.pct,
    aiTools |-> tbl.ai.tools,
    prs |-> [i \in 1..Len(tbl.prs) |->
               [ number |-> tbl.prs[i].pr,
                 repo |-> tbl.prs[i].repo,
                 merged |-> tbl.prs[i].status = "Merged",
                 comments |-> tbl.prs[i].comments,
                 changesRequested |-> tbl.prs[i].chgReq,
                 aiAssisted |-> tbl.prs[i].ai = "Yes" ]],
    repos |-> [i \in 1..Len(tbl.repos) |->
                 [ repo |-> tbl.repos[i].repo,
                   totalPRs |-> tbl.repos[i].prs,
                   mergedPRs |-> tbl.repos[i].merged,
                   totalComments |-> tbl.repos[i].comments,
                   changesRequested |-> tbl.repos[i].changesReq,
                   avgTimeToMerge |-> tbl.repos[i].avgMergeTime ]] ]

\* The same values as the CSV file has them.
CsvValues(csv) ==
  LET s == csv.summary IN
  [ totalPRs |-> s.totalPRs,
    mergedPRs |-> s.mergedPRs.value,
    openPRs |-> s.openPRs.value,
    closedPRs |-> s.closedPRs.value,
    reposContributed |-> s.reposContributed,
    totalComments |-> s.totalComments,
    avgCommentsPerPR |-> s.avgCommentsPerPR,
    totalChangesRequested |-> s.totalChangesRequested,
    avgChangesRequestedPerPR |-> s.avgChangesRequestedPerPR,
    avgTimeToMerge |-> s.avgTimeToMerge,
    totalIssuesCreated |-> s.totalIssuesCreated,
    openIssuesCreated |-> s.openIssuesCreated,
    closedIssuesCreated |-> s.closedIssuesCreated,
    totalIssuesAssigned |-> s.totalIssuesAssigned,
    openIssuesAssigned |-> s.openIssuesAssigned,
    closedIssuesAssigned |-> s.closedIssuesAssigned,
    totalPRsReviewed |-> s.totalPRsReviewed,
    aiAssistedPRs |-> s.aiAssistedPRs.value,
    aiAssistedPercentage |-> s.aiAssistedPRs.pct,
    aiTools |-> s.aiTools,
    prs |-> [i \in 1..Len(csv.prs) |->
               [ number |-> csv.prs[i].number,
                 repo |-> csv.prs[i].repo,
                 merged |-> csv.prs[i].merged = "Yes",
                 comments |-> csv.prs[i].comments,
                 changesRequested |-> csv.prs[i].changesRequested,
                 aiAssisted |-> csv.prs[i].aiAssisted = "Yes" ]],
    repos |-> [i \in 1..Len(csv.repoBreakdown) |->
                 [f \in {"repo", "totalPRs", "mergedPRs", "totalComments",
                         "changesRequested", "avgTimeToMerge"} |->
                    csv.repoBreakdown[i][f]]] ]

\* The same values as the JSON file has them (a null is a cell with no
\* value).
JsonValues(json) ==
  LET n == json.summary.numbers
      tools == json.summary.aiToolsBreakdown
      Cell(j) == IF j.null THEN Null ELSE Some(j.text)
  IN [f \in DOMAIN n |-> n[f].text] @@
     [ aiTools |-> [k \in {t[2] : t \in DOMAIN tools} |-> tools[<<"\"", k, "\"">>].text],
       prs |-> [i \in 1..Len(json.prs) |->
                  [ number |-> json.prs[i].number.text,
                    repo |-> json.prs[i].repo[2],
                    merged |-> json.prs[i].merged = "true",
                    comments |-> json.prs[i].comments.text,
                    changesRequested |-> json.prs[i].changesRequested.text,
                    aiAssisted |-> json.prs[i].aiAssisted = "true" ]],
       repos |-> [i \in 1..Len(json.repoBreakdown) |->
                    LET r == json.repoBreakdown[i] IN
                    [ repo |-> r.repo[2],
                      totalPRs |-> r.totalPRs.text,
                      mergedPRs |-> r.mergedPRs.text,
                      totalComments |-> r.totalComments.text,
                      changesRequested |-> r.changesRequested.text,
                      avgTimeToMerge |-> Cell(r.avgTimeToMerge) ]] ]

\* The percentages and the quality rows, which the CSV file and the table
\* both have.
TablePercentages(tbl) ==
  [ mergedPRs |-> tbl.prStats.merged.pct,
    openPRs |-> tbl.prStats.open.pct,
    closedPRs |-> tbl.prStats.closed.pct,
    cleanPRs |-> tbl.quality.clean,
    minorRevisions |-> tbl.quality.minor,
    multipleRevisions |-> tbl.quality.multiple ]

CsvPercentages(csv) ==
  [ mergedPRs |-> csv.summary.mergedPRs.pct,
    openPRs |-> csv.summary.openPRs.pct,
    closedPRs |-> csv.summary.closedPRs.pct,
    cleanPRs |-> csv.summary.cleanPRs,
    minorRevisions |-> csv.summary.minorRevisions,
    multipleRevisions |-> csv.summary.multipleRevisions ]

SummaryExported ==
  cmd = "summary" /\ pc = "done" /\ exported # <<>> /\ ~IsNull(shown)

----------------------------------------------------------------------------
(* The filters of the list fetches (SpecFetch) *)

ByAuthor(item) == fn = "fetchUserPRs" => item.login = fopts.username
InClosedRange(item) ==
  /\ fopts.since # 0 => fopts.since <= item.created_at
  /\ fopts.until # 0 => item.created_at <= fopts.until

NothingKept(pg) == \A j \in 1..Len(pg) : ~(ByAuthor(pg[j]) /\ InClosedRange(pg[j]))

\* C15: fetchUserPRs holds exactly the items of the fetched pages by the
\* given author created within [since, until] (a bound counting only when
\* given), fetchRepoPRs the same without the author test, in page order;
\* and the fetch goes on after every full page, whatever was kept of it.
C15_ListFetchFilters ==
  fn \in ListFetchers =>
    /\ collected = SelectSeq(Flatten(respLog),
                             LAMBDA item : ByAuthor(item) /\ InClosedRange(item))
    /\ \A i \in 1..Len(respLog) :
         PageLen(respLog[i]) = PerPage =>
           \/ Len(reqLog) > i
           \/ fpc = "loop" /\ hasMore /\ page = i + 1

C15_Witness ==
  /\ fn = "fetchUserPRs"
  /\ fpc = "done"
  /\ fopts.since = 2 /\ fopts.until = 2
  /\ Len(respLog) = 3
  /\ PageLen(respLog[1]) = PerPage /\ NothingKept(respLog[1])
  /\ collected = <<Run("u", 2, 60)>>

----------------------------------------------------------------------------
(* The per-PR follow-ups, one PR at a time *)

Awaited(i) == pc = "await" /\ i = idx
Skipped(i) == i \in 1..Len(answers) /\ IsNull(answers[i])

\* Record k of the result was built from the k-th PR of the list that was
\* not skipped.
RecordsInListOrder ==
  /\ Len(prDetails) = Len(ResolvedIdx)
  /\ \A k \in 1..Len(prDetails) : prDetails[k].number = prs[ResolvedIdx[k]].number

\* C16 as stated: the follow-up requests of a PR start only after those of
\* the PR before it have all settled, so the requests in flight are never
\* those of two different PRs; and the records keep the order of the list.
C16_OnePRInFlight ==
  cmd \in LoopCommands =>
    /\ Cardinality(inFlight) <= 1
    /\ pc = "await" => inFlight = {idx}
    /\ RecordsInListOrder

\* C16, amended: the follow-up requests of a PR start only after the wait
\* for the PR before it has ended, which is when all its requests have
\* succeeded or as soon as one of them has failed; so the requests in
\* flight are those of the PR being waited for and of earlier PRs that
\* were skipped, never those of two PRs that both get a record or of a PR
\* the loop has not reached; and the records keep the order of the list.
C16_FollowUpsOneAtATime ==
  cmd \in LoopCommands =>
    /\ \A i \in inFlight : Awaited(i) \/ Skipped(i)
    /\ pc = "await" => idx \in inFlight
    /\ RecordsInListOrder

C16_Witness ==
  /\ cmd = "user"
  /\ pc = "await"
  /\ idx = 3
  /\ inFlight = {1, 3}
  /\ Skipped(1) /\ ~Skipped(2)
  /\ Len(prDetails) = 1

----------------------------------------------------------------------------
(* The --state option of the pr command *)

PRRecords == Val(result).prs

\* C17: the records of the pr command are of the state asked for with
\* --state: all merged with merged, all open with open, all closed with
\* closed.
C17_StateRestrictsRecords ==
  cmd = "pr" /\ ~IsNull(result) =>
    \A k \in 1..Len(PRRecords) :
      /\ options.state = "merged" => PRRecords[k].merged
      /\ options.state = "open" => PRRecords[k].state = "open"
      /\ options.state = "closed" => PRRecords[k].state = "closed"

----------------------------------------------------------------------------
(* Progress markers *)

Markers == SelectSeq(stdout, LAMBDA m : m \in {".", "x"})
Dots == Len(SelectSeq(stdout, LAMBDA m : m = "."))

TotalPRsOfResult ==
  IF cmd = "pr" THEN Val(result).totalPRs ELSE Val(result).summary.totalPRs

\* C18: the loop writes one marker for every PR it has visited, in list
\* order, '.' for a PR whose record was added and 'x' for a skipped one;
\* once the result is built the '.' markers are as many as its totalPRs and
\* the markers as many as the fetched PRs.
C18_OneMarkerPerPR ==
  cmd \in LoopCommands =>
    /\ Len(Markers) = Len(answers)
    /\ \A i \in 1..Len(Markers) :
         Markers[i] = IF IsNull(answers[i]) THEN "x" ELSE "."
    /\ Dots = Len(prDetails)
    /\ ~IsNull(result) => /\ Dots = TotalPRsOfResult
                          /\ Len(Markers) = Len(prs)

C18_Witness ==
  /\ cmd = "pr"
  /\ pc = "done"
  /\ stdout = <<"info:fetching", "info:found", ".", "x", ".", "\n", "table">>
  /\ Val(result).totalPRs = 2
  /\ Len(prs) = 3

----------------------------------------------------------------------------
(* No request is sent twice (SpecRequests) *)

\* Requests the run of a command has sent before its loop.
RequestsBeforeLoop ==
  IF cmd \in LoopCommands THEN ListFetches(cmd) ELSE 0

FollowUpsSent == Len(answers) + (IF pc = "await" THEN 1 ELSE 0)

\* C19: a paginated fetch asks for the pages 1, 2, 3, ... once each and for
\* nothing after a request failed; a run sends the follow-up requests of
\* the PRs of its list once each, in list order, whether the follow-up
\* succeeded or failed.
C19_NoRequestRetried ==
  /\ reqLog = [i \in 1..Len(reqLog) |-> i]
  /\ Len(reqLog) = Len(respLog) + (IF fpc = "threw" THEN 1 ELSE 0)
  /\ (cmd \in LoopCommands /\ pc \in {"loop", "await", "render", "export", "done"}) =>
       /\ idx = Len(answers) + 1
       /\ FollowUpsSent <= Len(prs)
       /\ requests = RequestsBeforeLoop + FollowUpsSent * Cardinality(RequestsOf(cmd))

C19_Witness ==
  /\ cmd = "summary" /\ pc = "done"
  /\ Len(prs) = 3
  /\ IsNull(answers[1]) /\ IsNull(answers[2]) /\ ~IsNull(answers[3])
  /\ requests = 4 + 3 * 3

----------------------------------------------------------------------------
(* The order of the steps of a run *)

\* The step of a run a line of its output comes from.
StepOf(line) ==
  CASE line = "info:fetching" -> 1
    [] line \in {"info:found", "info:none", "info:computing"} -> 2
    [] line \in {".", "x"} -> 3
    [] line = "\n" -> 4
    [] line \in RenderMarkers -> 5
    [] line = "exported" -> 6
    [] OTHER -> 7

OutputInStepOrder ==
  \A i, j \in 1..Len(stdout) : i < j => StepOf(stdout[i]) <= StepOf(stdout[j])

\* The run is past its list fetches.
ListsFetched ==
  \/ pc \in {"loop", "await", "render", "export", "done"}
  \/ pc = "returned" /\ (cmd = "repo" => ~IsNull(remote.stats))
  \/ pc = "failed" /\ ~IsNull(result)

FetchedListsEmpty ==
  /\ ListsFetched
  /\ prs = <<>>
  /\ sideLists = EmptySide
  /\ cmd = "repo" => Val(remote.stats) = <<>>

EndedWithMessage ==
  /\ pc = "returned"
  /\ stdout[Len(stdout)] = "info:none"
  /\ ~Rendered
  /\ exported = <<>>

StepsInOrder ==
  /\ OutputInStepOrder
  /\ ~IsNull(result) => /\ ListsFetched
                        /\ cmd \in LoopCommands => Len(prDetails) + Len(SelectSeq(answers, IsNull)) = Len(prs)
  /\ Rendered => ~IsNull(result)
  /\ exported # <<>> => /\ Rendered
                        /\ options.export # NoFile
                        /\ Len(exported) = 1

\* C20 as stated: every command runs fetch, per-record metrics, summary,
\* render, export in this order, exports only after rendering and only
\* with --export, and with empty fetched lists prints a message and ends
\* without rendering or exporting.
C20_StepsInOrderAll ==
  /\ StepsInOrder
  /\ FetchedListsEmpty => EndedWithMessage

\* C20, amended: every command runs its steps in this order and exports
\* only after rendering and only with --export; the pr, user and summary
\* commands with empty fetched lists print a message and end without
\* rendering or exporting (the repo command renders its result then too).
C20_StepsInOrder ==
  /\ StepsInOrder
  /\ (cmd \in LoopCommands /\ FetchedListsEmpty) => EndedWithMessage

C20_Witness ==
  /\ cmd = "user"
  /\ options.export # NoFile
  /\ FetchedListsEmpty
  /\ EndedWithMessage
  /\ stdout = <<"info:fetching", "info:none">>

----------------------------------------------------------------------------
(* The counts of the pr command's records *)

PRResult == cmd = "pr" /\ ~IsNull(result)

\* C21: in every record of the pr command totalComments is issueComments
\* plus reviewComments, changesRequested plus approved is at most reviews,
\* and uniqueReviewers is at most reviews and at most uniqueParticipants;
\* summary.totalComments is the sum of the records' totalComments and
\* mergedPRs is at most totalPRs.
C21_RecordCountsAgree ==
  cmd = "pr" =>
    /\ \A k \in 1..Len(prDetails) :
         LET m == prDetails[k].metrics IN
         /\ m.totalComments = m.issueComments + m.reviewComments
         /\ m.changesRequested + m.approved <= m.reviews
         /\ m.uniqueReviewers <= m.reviews
         /\ m.uniqueReviewers <= m.uniqueParticipants
    /\ ~IsNull(result) =>
         /\ Val(result).summary.totalComments =
              SumSeq([k \in 1..Len(PRRecords) |-> PRRecords[k].metrics.totalComments])
         /\ Val(result).mergedPRs <= Val(result).totalPRs

\* A result of two records and a skipped PR: one record of three reviews
\* by two reviewers, one of them requesting changes and approving.
C21_Witness ==
  /\ PRResult
  /\ SomeFollowUpFailed
  /\ Val(result).totalPRs = 2
  /\ Val(result).mergedPRs = 1
  /\ Val(result).summary.totalComments = 2
  /\ \E k \in 1..2 :
       LET m == PRRecords[k].metrics IN
       /\ m.reviews = 3 /\ m.uniqueReviewers = 2
       /\ m.changesRequested = 1 /\ m.approved = 1
       /\ m.uniqueParticipants = 2

----------------------------------------------------------------------------
(* Medians and averages of calculateSummary *)

\* The lists calculateSummary takes its medians of: the records' comment
\* counts, and the times to merge of the merged records that have one (in
\* hundredths of a day).
CommentsList == [k \in 1..Len(PRRecords) |-> PRRecords[k].metrics.totalComments]
MergeTimesList ==
  LET merged == SelectSeq(PRRecords, LAMBDA r :
                            r.merged /\ ~IsNull(r.metrics.timeToMergeInDays))
  IN [k \in 1..Len(merged) |-> Val(merged[k].metrics.timeToMergeInDays)]

\* s is l in ascending order.
IsAscendingSortOf(s, l) ==
  /\ Len(s) = Len(l)
  /\ \A i \in 1..(Len(s) - 1) : s[i] <= s[i + 1]
  /\ \A v \in Range(l) \cup Range(s) :
       Cardinality({i \in 1..Len(s) : s[i] = v}) =
         Cardinality({i \in 1..Len(l) : l[i] = v})

Ascending(l) == CHOOSE s \in [1..Len(l) -> Range(l)] : IsAscendingSortOf(s, l)

\* m (in hundredths) is the median of l (in units of 1/unit): the middle
\* element, or the mean of the two middle elements, which is exact or
\* within half a hundredth.
MedianOfOdd(m, l, unit) ==
  Len(l) % 2 = 1 => m * unit = 100 * Ascending(l)[(Len(l) + 1) \div 2]
ExactMeanOfEven(m, l, unit) ==
  (Len(l) > 0 /\ Len(l) % 2 = 0) =>
    2 * m * unit = 100 * (Ascending(l)[Len(l) \div 2] + Ascending(l)[Len(l) \div 2 + 1])
RoundedMeanOfEven(m, l, unit) ==
  (Len(l) > 0 /\ Len(l) % 2 = 0) =>
    Abs(2 * m * unit
          - 100 * (Ascending(l)[Len(l) \div 2] + Ascending(l)[Len(l) \div 2 + 1]))
      <= unit

\* What C22 says apart from the median of a list of even length.
MediansOtherwise ==
  LET sm == Val(result).summary IN
  /\ MedianOfOdd(sm.medianComments, CommentsList, 1)
  /\ MedianOfOdd(sm.medianTimeToMerge, MergeTimesList, 100)
  /\ CommentsList = <<>> => sm.medianComments = 0 /\ sm.averageComments = 0
  /\ MergeTimesList = <<>> => sm.medianTimeToMerge = 0 /\ sm.averageTimeToMerge = 0
  /\ CommentsList # <<>> =>
       /\ sm.minComments \in Range(CommentsList)
       /\ sm.maxComments \in Range(CommentsList)
       /\ 100 * sm.minComments <= sm.medianComments
       /\ sm.medianComments <= 100 * sm.maxComments
       /\ 100 * sm.minComments <= sm.averageComments
       /\ sm.averageComments <= 100 * sm.maxComments
  /\ median(CommentsList, 1).arr = CommentsList
  /\ median(MergeTimesList, 100).arr = MergeTimesList

\* C22 as stated: the median of a list is the middle element of its
\* ascending sort when the length is odd and the mean of the two middle
\* elements when it is even; median and average are 0 for an empty list;
\* the minimum is at most the median and the average, which are at most the
\* maximum; the list is left in its order.
C22_MedianIsExactMean ==
  PRResult =>
    /\ MediansOtherwise
    /\ ExactMeanOfEven(Val(result).summary.medianComments, CommentsList, 1)
    /\ ExactMeanOfEven(Val(result).summary.medianTimeToMerge, MergeTimesList, 100)

\* C22, amended: the median of a list of even length is the mean of the two
\* middle elements written with two decimals, which is the mean itself for
\* comment counts and a value within 0.005 of the mean for times to merge;
\* the rest as stated.
C22_MedianOfList ==
  PRResult =>
    /\ MediansOtherwise
    /\ ExactMeanOfEven(Val(result).summary.medianComments, CommentsList, 1)
    /\ RoundedMeanOfEven(Val(result).summary.medianTimeToMerge, MergeTimesList, 100)

\* Two merged records, merged after 1.5 and after 1.01 days in this order,
\* with 1 and 3 comments: the medians are 2 comments and 1.26 days (the mean
\* is 1.255).
C22_Witness ==
  /\ PRResult
  /\ CommentsList = <<1, 3>>
  /\ MergeTimesList = <<150, 101>>
  /\ Val(result).summary.medianComments = 200
  /\ Val(result).summary.medianTimeToMerge = 126
  /\ Val(result).summary.minComments = 1
  /\ Val(result).summary.maxComments = 3

----------------------------------------------------------------------------
(* The contributors of the repo command *)

RepoResult == cmd = "repo" /\ ~IsNull(result)

\* The fetched PRs the login authored.
PRsBy(login) == Cardinality({i \in 1..Len(prs) : prs[i].user.login = login})

\* C23: in the repo command's result contributors holds at most --top
\* entries (all of them when there are no more than that), each a
\* contributor of the statistics with its commit count, ordered by commit
\* count descending, no contributor left out having more commits than one
\* listed; an entry's prs is the number of fetched PRs by its login;
\* totalContributors counts all contributors and totalPRs all fetched PRs;
\* the prs of the listed contributors add up to at most totalPRs.
C23_TopContributors ==
  RepoResult =>
    LET r == Val(result)
        cs == r.contributors
        stats == Val(remote.stats)
        listed == {cs[i].login : i \in 1..Len(cs)}
    IN /\ Len(cs) = Min(options.top, Len(stats))
       /\ Cardinality(listed) = Len(cs)
       /\ \A i \in 1..Len(cs) :
            /\ \E j \in 1..Len(stats) :
                 stats[j].author.login = cs[i].login /\ stats[j].total = cs[i].commits
            /\ cs[i].prs = PRsBy(cs[i].login)
       /\ \A i, j \in 1..Len(cs) : i < j => cs[i].commits >= cs[j].commits
       /\ \A j \in 1..Len(stats) :
            stats[j].author.login \notin listed =>
              \A i \in 1..Len(cs) : stats[j].total <= cs[i].commits
       /\ r.totalContributors = Len(stats)
       /\ r.totalPRs = Len(prs)
       /\ SumSeq([i \in 1..Len(cs) |-> cs[i].prs]) <= r.totalPRs

\* --top 1 with two contributors: the one with more commits, second in the
\* statistics and without a PR, is listed; the fetched PRs are by the other
\* contributor and by somebody who is none.
C23_Witness ==
  /\ RepoResult
  /\ options.top = 1
  /\ Val(result).totalContributors = 2
  /\ Val(result).contributors = <<[login |-> "w", commits |-> 7, prs |-> 0]>>
  /\ Val(result).totalPRs = 3
  /\ PRsBy("u") = 2 /\ PRsBy("v") = 1

----------------------------------------------------------------------------
(* The list fetches of user and summary, awaited together *)

AllListsResolved == resolvedLists = ListNames(cmd, "fetch")

NothingReported ==
  /\ IsNull(result)
  /\ IsNull(shown)
  /\ ~Rendered
  /\ exported = <<>>
  /\ prs = <<>>
  /\ sideLists = EmptySide
  /\ prDetails = <<>>
  /\ Markers = <<>>

\* C24: the user and summary commands go on past their list fetches only
\* when every one of them has resolved; when one fails the command ends
\* with the error printed and exit code 1 and nothing reported (no marker,
\* no record, no result, no export), whichever of the other lists were
\* fetched.
C24_ListFetchesFailTogether ==
  cmd \in {"user", "summary"} =>
    /\ pc \notin {"start", "fetch", "failed"} => AllListsResolved
    /\ (pc = "failed" /\ ~AllListsResolved) =>
         /\ exitCode = 1
         /\ ErrorPrintedLast
         /\ NothingReported

\* The summary command has failed: the fetch of the issues created
\* rejected after the three other lists, the PRs among them, were fetched.
C24_Witness ==
  /\ cmd = "summary"
  /\ pc = "failed"
  /\ exitCode = 1
  /\ resolvedLists = {"prs", "assigned", "reviewed"}
  /\ Len(remote.prs) = 3
  /\ requests = 4
  /\ NothingReported

----------------------------------------------------------------------------
(* The repository aggregates against the records *)

\* The sum of a field over the entries of repoMap and over the records.
OverRepos(f) == SumSeq([i \in 1..Len(repoMap) |-> repoMap[i][f]])
OverRecords(f) == SumSeq([k \in 1..Len(prDetails) |-> prDetails[k][f]])

MergedRecords == Cardinality({k \in 1..Len(prDetails) : prDetails[k].merged})

\* C25: in the user and summary commands, before and after every iteration
\* of the per-PR loop, the repository aggregates agree with the records
\* collected so far: totalPRs adds up to the number of records, mergedPRs to
\* the number of merged records, totalComments and changesRequested to the
\* sums over the records, and there is one aggregate for every repository
\* name among the records and no other.
C25_AggregatesAgreeWithRecords ==
  cmd \in {"user", "summary"} =>
    /\ OverRepos("totalPRs") = Len(prDetails)
    /\ OverRepos("mergedPRs") = MergedRecords
    /\ OverRepos("totalComments") = OverRecords("comments")
    /\ OverRepos("changesRequested") = OverRecords("changesRequested")
    /\ Len(repoMap) = Cardinality(ReposOfRecords)
    /\ {repoMap[i].repo : i \in 1..Len(repoMap)} = ReposOfRecords

\* In the loop, after a skipped PR, a merged record in one repository and
\* a record in another.
C25_Witness ==
  /\ cmd = "user"
  /\ pc = "loop"
  /\ idx = 4
  /\ IsNull(answers[1])
  /\ Len(prDetails) = 2
  /\ Len(repoMap) = 2
  /\ MergedRecords = 1
  /\ OverRepos("changesRequested") = 3
  /\ OverRepos("totalComments") > 0

----------------------------------------------------------------------------
(* Merged PRs and the average merge times *)

\* The merge times the overall average is taken over: those of the merged
\* records that are not null.
OverallMergeTimes ==
  Cardinality({k \in 1..Len(prDetails) :
                 prDetails[k].merged /\ ~IsNull(prDetails[k].timeToMerge)})

\* C26: every merged PR counts in its repository's average merge time: in
\* every repository aggregate mergeTimesCount equals mergedPRs, the
\* repositories' averages are taken over as many merged PRs as the overall
\* avgTimeToMerge, and a repository with a merged PR has an average that is
\* not null.
C26_MergedPRsInRepoAverage ==
  cmd \in {"user", "summary"} =>
    /\ \A i \in 1..Len(repoMap) : repoMap[i].mergeTimesCount = repoMap[i].mergedPRs
    /\ OverRepos("mergeTimesCount") = OverallMergeTimes
    /\ ~IsNull(result) =>
         \A i \in 1..Len(Val(result).repoBreakdown) :
           LET r == Val(result).repoBreakdown[i] IN
           r.mergedPRs > 0 => ~IsNull(r.avgTimeToMerge)

----------------------------------------------------------------------------
(* Merged records of the pr command and their time to merge *)

\* C27: in every record of the pr command merged is true exactly when the
\* PR has a merged_at and exactly when timeToMergeInDays is not null, so
\* averageTimeToMerge and medianTimeToMerge are taken over as many values
\* as the result counts merged PRs.
C27_MergedHasTimeToMerge ==
  cmd = "pr" /\ Len(prDetails) = Len(ResolvedIdx) =>
    /\ \A k \in 1..Len(prDetails) :
         /\ prDetails[k].merged <=> ~IsNull(Val(answers[ResolvedIdx[k]]).pr.merged_at)
         /\ prDetails[k].merged <=> ~IsNull(prDetails[k].metrics.timeToMergeInDays)
    /\ ~IsNull(result) => Len(MergeTimesList) = Val(result).mergedPRs

----------------------------------------------------------------------------
(* The early exit of the summary command *)

SummaryListsFetched == cmd = "summary" /\ AllListsResolved

SomeListNonEmpty ==
  \/ prs # <<>>
  \/ sideLists.issues # <<>>
  \/ sideLists.assigned # <<>>
  \/ sideLists.reviewed # <<>>

\* C28: the summary command renders a result whenever one of its fetched
\* lists (PRs raised, issues created, issues assigned, PRs reviewed) is
\* not empty, and ends early with 'No PRs or issues found' only when all
\* of them are empty.
C28_SummaryRendersWhatItFound ==
  SummaryListsFetched =>
    /\ pc = "returned" => ~SomeListNonEmpty
    /\ (SomeListNonEmpty /\ pc \in {"export", "done", "failed", "returned"}) =>
         Rendered

----------------------------------------------------------------------------
(* The code-quality buckets *)

\* The records of the result with a number of changes requested in S.
RecordsWith(S) ==
  Cardinality({k \in 1..Len(Val(result).prs) :
                 Val(result).prs[k].changesRequested \in S})

\* The three rows as numbers, and whether their percentages are those of
\* the counts out of `total` PRs, to one decimal.
BucketCounts(rows) ==
  [b \in {"clean", "minor", "multiple"} |-> NumberOf(rows[b].value, 1)]

BucketPercentages(rows, total) ==
  \A b \in {"clean", "minor", "multiple"} :
    LET pct == NumberOf(rows[b].pct, 10)
        n == NumberOf(rows[b].value, 1)
    IN /\ Len(rows[b].pct.frac) = 1
       /\ IF total = 0 THEN pct = 0
          ELSE 2 * Abs(pct * total - 1000 * n) <= total

PartitionOfRecords(counts) ==
  /\ counts.clean = RecordsWith({0})
  /\ counts.minor = RecordsWith({1})
  /\ counts.multiple = RecordsWith(Nat \ {0, 1})
  /\ counts.clean + counts.minor + counts.multiple = TheSummary.totalPRs

TableRows == [clean |-> Val(shown).text.quality.clean,
              minor |-> Val(shown).text.quality.minor,
              multiple |-> Val(shown).text.quality.multiple]

CsvRows(file) == [clean |-> file.text.summary.cleanPRs,
                  minor |-> file.text.summary.minorRevisions,
                  multiple |-> file.text.summary.multipleRevisions]

TableShown == cmd = "summary" /\ ~IsNull(shown) /\ options.format = "table"
CsvWritten == cmd = "summary" /\ exported # <<>> /\ exported[1].kind = "csv"

\* C29: the clean (0 changes requested), minor (exactly 1) and multiple (2
\* or more) rows of the table and of the CSV file count the records of
\* each kind and add up to summary.totalPRs, the table and the CSV file
\* have the same three counts, and each percentage is the count out of
\* totalPRs to one decimal, 0.0 when totalPRs is 0.
C29_QualityBucketsPartition ==
  /\ TableShown =>
       /\ PartitionOfRecords(BucketCounts(TableRows))
       /\ BucketPercentages(TableRows, TheSummary.totalPRs)
  /\ CsvWritten =>
       /\ PartitionOfRecords(BucketCounts(CsvRows(exported[1])))
       /\ BucketPercentages(CsvRows(exported[1]), TheSummary.totalPRs)
  /\ (TableShown /\ CsvWritten) =>
       BucketCounts(TableRows) = BucketCounts(CsvRows(exported[1]))

\* The table was shown and the CSV file written for three records with 0,
\* 2 and 3 changes requested: one clean PR, none with minor and two with
\* multiple revisions (66.7%).
C29_Witness ==
  /\ TableShown /\ CsvWritten
  /\ TheSummary.totalPRs = 3
  /\ DOMAIN TheSummary.changesRequestedDistribution = {0, 2, 3}
  /\ BucketCounts(TableRows) = [clean |-> 1, minor |-> 0, multiple |-> 2]
  /\ TableRows.multiple.pct = [int |-> 66, frac |-> <<7>>]
  /\ CsvRows(exported[1]).multiple.pct = [int |-> 66, frac |-> <<7>>]

\* The table was shown and the CSV file written with no record (the one
\* PR was skipped): every count is 0 and every percentage 0.0.
C29_WitnessNoRecords ==
  /\ TableShown /\ CsvWritten
  /\ SomeFollowUpFailed
  /\ TheSummary.totalPRs = 0
  /\ TableRows.clean.pct = [int |-> 0, frac |-> <<0>>]

============================================================================
